---- MODULE Spec2Model ----
(***************************************************************************)
(* The dataset triggers of the LangWatch n8n nodes: the resumable row      *)
(* trigger (cursor persisted in the node's static data), the stepwise row  *)
(* trigger (cursor rebuilt from the previous output) and the batch         *)
(* trigger, with the shuffle, window and limit computations they share.    *)
(***************************************************************************)
EXTENDS Integers, Sequences, FiniteSets, TLC

\* Longest dataset the remote service returns to a trigger call.
MaxLen == 2
\* Longest snapshot the window computation is exercised on in SpecWindow.
MaxSnap == 4
\* Longest sequence the seeded shuffle is exercised on in SpecShuffle.
MaxShuffle == 6
\* Longest sequence the unseeded shuffle (Math.random) is exercised on.
MaxUnseeded == 3
\* Most items an execution of the Evaluation node is given.
MaxItems == 2
\* Longest snapshot the two row-limit policies are compared on, next to the
\* one that is one row longer than the resumable trigger's default limit.
MaxRun == 3

(***************************************************************************)
(* JavaScript values.  An optional value (an option the user did not add,  *)
(* an unassigned static-data field) is <<>> when undefined and <<v>> when  *)
(* it holds v.                                                             *)
(***************************************************************************)
Unset == <<>>
Some(v) == <<v>>
\* `const { x = d } = processingOptions`
OrDefault(o, d) == IF o = Unset THEN d ELSE o[1]
Max(a, b) == IF a >= b THEN a ELSE b
Min(a, b) == IF a <= b THEN a ELSE b

\* Array.prototype.slice(start, end) on a 1-based TLA+ sequence holding the
\* 0-based JavaScript array: negative indexes count from the end.
JsSlice(a, start, end) ==
  LET n == Len(a)
      from == IF start < 0 THEN Max(n + start, 0) ELSE Min(start, n)
      to == IF end < 0 THEN Max(n + end, 0) ELSE Min(end, n)
  IN  IF from >= to THEN <<>> ELSE [k \in 1..(to - from) |-> a[from + k]]

\* rows.filter((_, index) => index % stepSize === 0), taken when stepSize > 1
StepFilter(a, stepSize) ==
  IF stepSize > 1
    THEN [k \in 1..((Len(a) + stepSize - 1) \div stepSize) |-> a[(k - 1) * stepSize + 1]]
    ELSE a

\* Math.round(x) for x = num / den, den # 0: the integer nearest to x, a half
\* rounding towards +infinity.
JsRound(num, den) ==
  IF den > 0 THEN (2 * num + den) \div (2 * den)
             ELSE (-(2 * num) - den) \div (-(2 * den))

(***************************************************************************)
(* The seeded random source: xorshift32 on a 32-bit word, bit 0 the least  *)
(* significant.                                                            *)
(***************************************************************************)
WordBits == 0..31
ShiftA == 13
ShiftB == 17
ShiftC == 5
DrawModulus == 1000000

Pow2(b) == 2 ^ b
\* seed >>> 0
ToUint32(seed) ==
  [b \in WordBits |-> IF b = 31 THEN seed < 0 ELSE ((seed \div Pow2(b)) % 2) = 1]
Shl(w, k) == [b \in WordBits |-> IF b >= k THEN w[b - k] ELSE FALSE]
Shr(w, k) == [b \in WordBits |-> IF b + k <= 31 THEN w[b + k] ELSE FALSE]
Xor(v, w) == [b \in WordBits |-> v[b] # w[b]]
\* variant: the right shift taken first
XorShift32RightFirst(s) ==
  LET s1 == Xor(s, Shr(s, ShiftB))
      s2 == Xor(s1, Shl(s1, ShiftA))
  IN  Xor(s2, Shl(s2, ShiftC))
\* s ^= s << 13; s ^= s >>> 17; s ^= s << 5
XorShift32(s) ==
  LET s1 == Xor(s, Shl(s, ShiftA))
      s2 == Xor(s1, Shr(s1, ShiftB))
  IN  Xor(s2, Shl(s2, ShiftC))
RECURSIVE WordMod(_, _, _, _)
\* (s >>> 0) % m, by Horner's rule from bit b down to bit 0
WordMod(w, b, acc, m) ==
  IF b < 0 THEN acc
  ELSE WordMod(w, b - 1, (2 * acc + (IF w[b] THEN 1 ELSE 0)) % m, m)
RECURSIVE Iterate(_, _)
\* the generator's state after k calls of random()
Iterate(s, k) == IF k = 0 THEN s ELSE XorShift32(Iterate(s, k - 1))

(***************************************************************************)
(* The shuffle.  A random source is modelled by the index j it yields at   *)
(* each position i of the backward pass: draws[i] = floor(random()*(i+1)). *)
(***************************************************************************)
\* Math.random: any value of [0, 1), so any j of 0..i
UnseededDraws(n) == {d \in [1..(n - 1) -> 0..(n - 1)] : \A i \in 1..(n - 1) : d[i] <= i}
\* the seeded source: the k-th call serves position i = n - k
SeededDraws(seed, n) ==
  [i \in 1..(n - 1) |->
     (WordMod(Iterate(ToUint32(seed), n - i), 31, 0, DrawModulus) * (i + 1)) \div DrawModulus]
\* the seeds a shuffle is exercised with, and their draws for every length
Seeds == {42, 7}
SeededDrawsTable == [seed \in Seeds, n \in 0..(MaxLen + 1) |-> SeededDraws(seed, n)]
\* [a[i], a[j]] = [a[j], a[i]] with 0-based i, j
Swap(a, i, j) ==
  [k \in 1..Len(a) |-> IF k = i + 1 THEN a[j + 1] ELSE IF k = j + 1 THEN a[i + 1] ELSE a[k]]
RECURSIVE FisherYates(_, _, _)
\* for (let i = length - 1; i > 0; i--) swap(i, j)
FisherYates(a, i, draws) ==
  IF i <= 0 THEN a ELSE FisherYates(Swap(a, i, draws[i]), i - 1, draws)
\* the random sources a shuffle of n rows can run on: `seed || 0` selects
\* xorshift32 when it is not 0 and Math.random otherwise
ShuffleDraws(seedOption, n) ==
  LET seed == OrDefault(seedOption, 0)
  IN  IF seed # 0
        THEN {IF seed \in Seeds /\ n <= MaxLen + 1 THEN SeededDrawsTable[seed, n]
                                                  ELSE SeededDraws(seed, n)}
        ELSE UnseededDraws(n)
Shuffle(a, draws) == FisherYates(a, Len(a) - 1, draws)

(***************************************************************************)
(* The remote collection service: GET /api/dataset/{id}.  A response is a  *)
(* failed request ("error"), a body that is null ("null"), or a body whose *)
(* data field is missing, a falsy non-array such as 0 or "" ("falsy"), a   *)
(* truthy non-array such as an object ("object") or an array of rows.  A   *)
(* row is modelled by its id.                                              *)
(***************************************************************************)
RowsOfLength(n) == [k \in 1..n |-> k]
Responses ==
  {[kind |-> k, data |-> <<>>] : k \in {"error", "null", "missing", "falsy", "object"}}
    \cup {[kind |-> "array", data |-> RowsOfLength(n)] : n \in 0..MaxLen}
\* (data as any)?.data || []   and   data.data || []
DataOrEmpty(resp) ==
  IF resp.kind \in {"null", "missing", "falsy"} THEN [kind |-> "array", data |-> <<>>] ELSE resp
\* (data as any)?.data ?? []
DataNullish(resp) ==
  IF resp.kind \in {"null", "missing"} THEN [kind |-> "array", data |-> <<>>] ELSE resp
\* !Array.isArray(rows) || rows.length === 0
IsEmptyCollection(entries) == entries.kind # "array" \/ Len(entries.data) = 0

(***************************************************************************)
(* Parameters of a call.                                                   *)
(***************************************************************************)
DatasetIds == {"ds1", "ds2"}
RowMaxRowsDefault == 10
BatchMaxRowsDefault == 100
EndRowAll == -1

NoOptions ==
  [limitRows |-> Unset, maxRows |-> Unset, startRow |-> Unset, endRow |-> Unset,
   stepSize |-> Unset, shuffleRows |-> Unset, shuffleSeed |-> Unset,
   resetProgress |-> Unset]

(***************************************************************************)
(* Window and limit.                                                       *)
(***************************************************************************)
\* variant: endRow taken as exclusive
RowEndIndexExclusive(endRow, length) ==
  IF endRow # Unset /\ endRow[1] # EndRowAll THEN Min(endRow[1], length) ELSE length
\* resumable row trigger and batch trigger: endRow -1 (or unset) means all rows
RowEndIndex(endRow, length) ==
  IF endRow # Unset /\ endRow[1] # EndRowAll THEN Min(endRow[1] + 1, length) ELSE length
\* stepwise row trigger: only an unset endRow means all rows
StepEndIndex(endRow, length) ==
  IF endRow # Unset THEN Min(endRow[1] + 1, length) ELSE length
RowWindow(entries, opts) ==
  LET startIndex == Max(0, OrDefault(opts.startRow, 0))
      endIndex == RowEndIndex(opts.endRow, Len(entries))
  IN  StepFilter(JsSlice(entries, startIndex, endIndex), OrDefault(opts.stepSize, 1))
StepWindow(entries, opts) ==
  LET startIndex == Max(0, OrDefault(opts.startRow, 0))
      endIndex == StepEndIndex(opts.endRow, Len(entries))
  IN  StepFilter(JsSlice(entries, startIndex, endIndex), OrDefault(opts.stepSize, 1))
BatchWindow(entries, opts) ==
  LET startIndex == Max(0, OrDefault(opts.startRow, 0))
      endIndex == RowEndIndex(opts.endRow, Len(entries))
  IN  StepFilter(JsSlice(entries, startIndex, endIndex), OrDefault(opts.stepSize, 1))
\* limitRows ? Math.min(maxRows, rows.length) : rows.length
EffectiveTotal(opts, rows, maxRowsDefault) ==
  IF OrDefault(opts.limitRows, FALSE)
    THEN Min(OrDefault(opts.maxRows, maxRowsDefault), Len(rows))
    ELSE Len(rows)

(***************************************************************************)
(* The emitted item.                                                       *)
(***************************************************************************)
\* outputData of the row triggers: remaining is rowsLeft
RowOutput(rows, currentIndex, effectiveTotal) ==
  LET rowsLeft == Max(0, effectiveTotal - (currentIndex + 1)) IN
  [row |-> rows[currentIndex + 1],
   row_number |-> currentIndex,
   rowsLeft |-> rowsLeft,
   progress |-> [current |-> currentIndex + 1,
                 total |-> effectiveTotal,
                 percentage |-> JsRound((currentIndex + 1) * 100, effectiveTotal),
                 remaining |-> rowsLeft]]

(***************************************************************************)
(* State.                                                                  *)
(***************************************************************************)
VARIABLES
  impl,        \* which trigger node the workflow starts from
  cfg,         \* the node parameters: datasetId and processingOptions
  staticData,  \* getWorkflowStaticData('node') of the row trigger
  last,        \* what the last call did and returned; forgotten when cfg is edited
  run,         \* the calls made since the static data was empty
  batch,       \* the run of the batch trigger: its closure and what it emitted
  win,         \* a snapshot and window parameters, and the Working Sets computed from them
  shuf,        \* a fetched sequence and a seed, and the orders the shuffles give it
  ev,          \* an execution of the Evaluation node: its input, parameters and result
  lim,         \* one snapshot run through the resumable trigger, call after call
  pipe         \* the Evaluation node run on the items a batch run emits, one by one

vars == <<impl, cfg, staticData, last, run, batch, win, shuf, ev, lim, pipe>>

EmptyStaticData ==
  [processedDataset |-> Unset, datasetId |-> Unset, shuffleRows |-> Unset,
   shuffleSeed |-> Unset, cursor |-> Unset]

NoResponse == [kind |-> "none", data |-> <<>>]
NoCall ==
  [call |-> "none", outcome |-> "none", out |-> Unset, needsReload |-> FALSE,
   fetches |-> 0, shuffles |-> 0, fetched |-> NoResponse,
   snapshot |-> <<>>, rows |-> <<>>, effectiveTotal |-> 0, currentIndex |-> 0,
   input |-> [kind |-> "none", row_number |-> Unset, rowsLeft |-> Unset]]

\* what an edit of the parameters leaves of the last call's observation:
\* outcome "loaded" says that the last call worked on a snapshot and that only
\* the window and limit were edited since
Forget(obs, windowOnly) ==
  IF windowOnly /\ obs.outcome \in {"row", "RowsExhausted", "loaded"}
    THEN [NoCall EXCEPT !.outcome = "loaded"]
    ELSE NoCall

(***************************************************************************)
(* The user edits the node parameters between executions, one field at a   *)
(* time (the window and limit fields as one group).                        *)
(***************************************************************************)
Windows ==
  {[startRow |-> Unset, endRow |-> Unset, stepSize |-> Unset, limitRows |-> Unset, maxRows |-> Unset],
   [startRow |-> Some(1), endRow |-> Unset, stepSize |-> Some(2), limitRows |-> Unset, maxRows |-> Unset],
   [startRow |-> Some(MaxLen), endRow |-> Some(MaxLen), stepSize |-> Unset, limitRows |-> Unset, maxRows |-> Unset],
   [startRow |-> Unset, endRow |-> Some(-2), stepSize |-> Unset, limitRows |-> Unset, maxRows |-> Unset],
   [startRow |-> Unset, endRow |-> Unset, stepSize |-> Unset, limitRows |-> Some(TRUE), maxRows |-> Some(1)],
   [startRow |-> Unset, endRow |-> Some(-1), stepSize |-> Unset, limitRows |-> Some(TRUE), maxRows |-> Some(-1)]}
WithWindow(o, w) ==
  [o EXCEPT !.startRow = w.startRow, !.endRow = w.endRow, !.stepSize = w.stepSize,
            !.limitRows = w.limitRows, !.maxRows = w.maxRows]
SeedOptions == {Unset, Some(0), Some(42)}
\* the experiment configurations and emit intervals of the batch trigger
ExperimentConfigs ==
  {[enableExperiment |-> FALSE, experimentId |-> "", experimentSlug |-> ""],
   [enableExperiment |-> TRUE, experimentId |-> "", experimentSlug |-> "exp"],
   [enableExperiment |-> TRUE, experimentId |-> "", experimentSlug |-> ""]}
EmitIntervals == {0, 5}
WindowEdits(c) == {[c EXCEPT !.opts = WithWindow(c.opts, w)] : w \in Windows}
KeyEdits(c) ==
  {[c EXCEPT !.datasetId = d] : d \in DatasetIds}
    \cup {[c EXCEPT !.opts.shuffleRows = v] : v \in {Unset, Some(TRUE)}}
    \cup (IF impl \in {"resumable", "batch"}
            THEN {[c EXCEPT !.opts.shuffleSeed = v] : v \in SeedOptions}
            ELSE {})
    \cup (IF impl = "resumable"
            THEN {[c EXCEPT !.opts.resetProgress = v] : v \in {Unset, Some(TRUE)}}
            ELSE {})
    \cup (IF impl = "batch"
            THEN {[c EXCEPT !.experimentConfig = e] : e \in ExperimentConfigs}
                   \cup {[c EXCEPT !.emitIntervalMs = ms] : ms \in EmitIntervals}
            ELSE {})

Configure ==
  /\ batch.pc = "inactive"
  /\ \/ \E c \in WindowEdits(cfg) \ {cfg} : cfg' = c /\ last' = Forget(last, TRUE)
     \/ \E c \in KeyEdits(cfg) \ {cfg} : cfg' = c /\ last' = Forget(last, FALSE)
  /\ run' = IF run.n = 0 THEN run ELSE [n |-> 0, steady |-> FALSE, data |-> <<>>]
  /\ UNCHANGED <<impl, staticData, batch, win, shuf, ev, lim, pipe>>

(***************************************************************************)
(* Resumable row trigger: LangWatchDatasetRowTrigger.execute.              *)
(***************************************************************************)
RowNeedsReload(sd, datasetId, opts) ==
  \/ opts.resetProgress = Some(TRUE)
  \/ sd.processedDataset = Unset
  \/ sd.datasetId # Some(datasetId)
  \/ sd.shuffleRows # Some(OrDefault(opts.shuffleRows, FALSE))
  \/ sd.shuffleSeed # opts.shuffleSeed

\* variant: the cursor is not reset
RowStoreKeepCursor(sd, datasetEntries, datasetId, opts) ==
  [processedDataset |-> Some(datasetEntries),
   datasetId |-> Some(datasetId),
   shuffleRows |-> Some(OrDefault(opts.shuffleRows, FALSE)),
   shuffleSeed |-> Some(OrDefault(opts.shuffleSeed, 0)),
   cursor |-> sd.cursor]
\* the five assignments that end the reload branch
RowStore(sd, datasetEntries, datasetId, opts) ==
  [processedDataset |-> Some(datasetEntries),
   datasetId |-> Some(datasetId),
   shuffleRows |-> Some(OrDefault(opts.shuffleRows, FALSE)),
   shuffleSeed |-> Some(OrDefault(opts.shuffleSeed, 0)),
   cursor |-> Some(0)]

\* variant: the cursor is stored without the increment
RowAdvanceNot(sd, currentIndex) == [sd EXCEPT !.cursor = Some(currentIndex)]
\* staticData.cursor = currentIndex + 1
RowAdvance(sd, currentIndex) == [sd EXCEPT !.cursor = Some(currentIndex + 1)]

\* from the window to the return, on the snapshot the call works on
RowEmit(sd, opts, obs) ==
  LET rows == RowWindow(obs.snapshot, opts)
      currentIndex == Max(0, OrDefault(sd.cursor, 0))
      effectiveTotal == EffectiveTotal(opts, rows, RowMaxRowsDefault)
      seen == [obs EXCEPT !.rows = rows, !.effectiveTotal = effectiveTotal,
                          !.currentIndex = currentIndex]
  IN  IF currentIndex >= effectiveTotal
        THEN [sd |-> sd, obs |-> [seen EXCEPT !.outcome = "RowsExhausted"]]
        ELSE [sd |-> RowAdvance(sd, currentIndex),
              obs |-> [seen EXCEPT !.outcome = "row",
                                   !.out = Some(RowOutput(rows, currentIndex, effectiveTotal))]]

\* the reload branch on a response, with the random source the shuffle runs on
RowReload(sd, datasetId, opts, resp, draws, obs) ==
  LET datasetEntries == DataOrEmpty(resp)
      fetched == [obs EXCEPT !.fetches = 1, !.fetched = resp]
  IN  IF resp.kind = "error"
        THEN [sd |-> sd, obs |-> [fetched EXCEPT !.outcome = "TransportFailure"]]
      ELSE IF IsEmptyCollection(datasetEntries)
        THEN [sd |-> sd, obs |-> [fetched EXCEPT !.outcome = "CollectionEmpty"]]
      ELSE LET shuffleRows == OrDefault(opts.shuffleRows, FALSE)
               entries == IF shuffleRows THEN Shuffle(datasetEntries.data, draws)
                                         ELSE datasetEntries.data
               stored == RowStore(sd, entries, datasetId, opts)
           IN  RowEmit(stored, opts,
                       [fetched EXCEPT !.shuffles = IF shuffleRows THEN 1 ELSE 0,
                                       !.snapshot = entries])

CallStart(name, needsReload) ==
  [NoCall EXCEPT !.call = name, !.needsReload = needsReload]

\* the random sources of a call: one if it does not shuffle
CallDraws(opts, resp) ==
  IF resp.kind = "array" /\ Len(resp.data) > 0 /\ OrDefault(opts.shuffleRows, FALSE)
    THEN ShuffleDraws(opts.shuffleSeed, Len(resp.data))
    ELSE {<<>>}

\* the calls since the static data was empty, while the parameters were not
\* edited and every fetch returned the same non-empty array
RunAfter(r, obs) ==
  IF ~r.steady THEN r
  ELSE IF obs.fetches = 0 THEN [r EXCEPT !.n = Min(r.n + 1, MaxLen + 2)]
  ELSE IF obs.fetched.kind = "array" /\ Len(obs.fetched.data) > 0
          /\ (r.n = 0 \/ r.data = obs.fetched.data)
    THEN [n |-> Min(r.n + 1, MaxLen + 2), steady |-> TRUE, data |-> obs.fetched.data]
  ELSE [n |-> 0, steady |-> FALSE, data |-> <<>>]

RowExecute ==
  /\ impl = "resumable"
  /\ LET needsReload == RowNeedsReload(staticData, cfg.datasetId, cfg.opts)
         obs == CallStart("resumable", needsReload)
     IN  IF needsReload
           THEN \E resp \in Responses : \E draws \in CallDraws(cfg.opts, resp) :
                  LET r == RowReload(staticData, cfg.datasetId, cfg.opts, resp, draws, obs)
                  IN  /\ staticData' = r.sd /\ last' = r.obs
                      /\ run' = RunAfter(run, r.obs)
           ELSE LET r == RowEmit(staticData, cfg.opts,
                                 [obs EXCEPT !.snapshot = staticData.processedDataset[1]])
                IN  /\ staticData' = r.sd /\ last' = r.obs
                    /\ run' = RunAfter(run, r.obs)
  /\ UNCHANGED <<impl, cfg, batch, win, shuf, ev, lim, pipe>>

(***************************************************************************)
(* Stepwise row trigger: the execute that rebuilds the cursor from the     *)
(* first input item, the output of its previous run.                       *)
(***************************************************************************)
StepNeedsReload(sd, datasetId, opts) ==
  \/ sd.processedDataset = Unset
  \/ sd.datasetId # Some(datasetId)
  \/ sd.shuffleRows # Some(OrDefault(opts.shuffleRows, FALSE))

StepStore(sd, datasetEntries, datasetId, opts) ==
  [sd EXCEPT !.processedDataset = Some(datasetEntries),
             !.datasetId = Some(datasetId),
             !.shuffleRows = Some(OrDefault(opts.shuffleRows, FALSE))]

\* inputData?.[0]?.json as the cursor derivation reads it
NoInput == [kind |-> "none", row_number |-> Unset, rowsLeft |-> Unset]
OtherItem == [kind |-> "other", row_number |-> Unset, rowsLeft |-> Unset]
PreviousOutput(item) ==
  [kind |-> "previous", row_number |-> Some(item.row_number), rowsLeft |-> Some(item.rowsLeft)]
\* variant: _rowsLeft is not looked at
StepCurrentIndexNoRestart(input) ==
  IF input.row_number # Unset THEN input.row_number[1] + 1 ELSE 0
\* typeof previousRunRowNumber === 'number' && previousRunRowsLeft !== 0
StepCurrentIndex(input) ==
  IF input.row_number # Unset /\ input.rowsLeft # Some(0)
    THEN input.row_number[1] + 1
    ELSE 0

StepEmit(sd, opts, input, obs) ==
  LET rows == StepWindow(obs.snapshot, opts)
      currentIndex == StepCurrentIndex(input)
      effectiveTotal == EffectiveTotal(opts, rows, RowMaxRowsDefault)
      seen == [obs EXCEPT !.rows = rows, !.effectiveTotal = effectiveTotal,
                          !.currentIndex = currentIndex]
  IN  IF currentIndex >= effectiveTotal
        THEN [sd |-> sd, obs |-> [seen EXCEPT !.outcome = "RowsExhausted"]]
      ELSE IF currentIndex < 0
        \* datasetEntries[currentIndex] is undefined: reading .entry throws a
        \* TypeError, which the catch wraps
        THEN [sd |-> sd, obs |-> [seen EXCEPT !.outcome = "TransportFailure"]]
      ELSE [sd |-> sd,
            obs |-> [seen EXCEPT !.outcome = "row",
                                 !.out = Some(RowOutput(rows, currentIndex, effectiveTotal))]]

StepReload(sd, datasetId, opts, input, resp, draws, obs) ==
  LET datasetEntries == DataOrEmpty(resp)
      fetched == [obs EXCEPT !.fetches = 1, !.fetched = resp]
  IN  \* a failed request, or JSON.parse(response) giving null, whose .data throws
      IF resp.kind \in {"error", "null"}
        THEN [sd |-> sd, obs |-> [fetched EXCEPT !.outcome = "TransportFailure"]]
      ELSE IF IsEmptyCollection(datasetEntries)
        THEN [sd |-> sd, obs |-> [fetched EXCEPT !.outcome = "CollectionEmpty"]]
      ELSE LET shuffleRows == OrDefault(opts.shuffleRows, FALSE)
               entries == IF shuffleRows THEN Shuffle(datasetEntries.data, draws)
                                         ELSE datasetEntries.data
               stored == StepStore(sd, entries, datasetId, opts)
           IN  StepEmit(stored, opts, input,
                        [fetched EXCEPT !.shuffles = IF shuffleRows THEN 1 ELSE 0,
                                        !.snapshot = entries])

\* the items the workflow can hand to the trigger: none, an item that is not
\* the trigger's own, or the output of the previous run
StepInputs ==
  {NoInput, OtherItem} \cup (IF last.out # Unset THEN {PreviousOutput(last.out[1])} ELSE {})

StepExecute ==
  /\ impl = "stepwise"
  /\ \E input \in StepInputs :
       LET needsReload == StepNeedsReload(staticData, cfg.datasetId, cfg.opts)
           obs == [CallStart("stepwise", needsReload) EXCEPT !.input = input]
           noSeed == [cfg.opts EXCEPT !.shuffleSeed = Unset]
       IN  IF needsReload
             THEN \E resp \in Responses : \E draws \in CallDraws(noSeed, resp) :
                    LET r == StepReload(staticData, cfg.datasetId, cfg.opts, input, resp, draws, obs)
                    IN  /\ staticData' = r.sd /\ last' = r.obs
                        /\ run' = RunAfter(run, r.obs)
             ELSE LET r == StepEmit(staticData, cfg.opts, input,
                                    [obs EXCEPT !.snapshot = staticData.processedDataset[1]])
                  IN  /\ staticData' = r.sd /\ last' = r.obs
                      /\ run' = RunAfter(run, r.obs)
  /\ UNCHANGED <<impl, cfg, batch, win, shuf, ev, lim, pipe>>

(***************************************************************************)
(* Batch trigger: LangWatchDatasetBatchTrigger.trigger, the loop of run()  *)
(* it starts, and the closeFunction it returns.                            *)
(***************************************************************************)
NoBatch ==
  [pc |-> "inactive", rows |-> <<>>, effectiveTotal |-> 0, i |-> 0, cancelled |-> FALSE,
   emitIntervalMs |-> 0, experimentInfo |-> Unset, runId |-> Unset, initRequests |-> 0,
   emitted |-> <<>>]

\* POST /api/experiment/init: the request fails, or returns a falsy body or
\* the experiment
InitResponses == {"error", "falsy", "info"}
ExperimentInfo == [slug |-> "exp", path |-> "/exp"]
RunIdValue == "run-id"

\* emitRow(row, index)
BatchItem(row, index, effectiveTotal, experimentInfo, runId) ==
  [row |-> row,
   row_number |-> index,
   rowsLeft |-> Max(0, effectiveTotal - (index + 1)),
   progress |-> [current |-> index + 1,
                 total |-> effectiveTotal,
                 percentage |-> JsRound((index + 1) * 100, effectiveTotal),
                 remaining |-> Max(0, effectiveTotal - (index + 1))],
   experiment |-> IF experimentInfo # Unset THEN Some(experimentInfo[1]) ELSE Unset,
   batch |-> IF experimentInfo # Unset THEN Some([runId |-> runId]) ELSE Unset]

\* rows = rows.slice(0, effectiveTotal)
BatchLimit(rows, effectiveTotal) == JsSlice(rows, 0, effectiveTotal)

\* one pass of the loop body: this.emit([[emitRow(rows[i], i)]])
BatchEmitAt(b, i) ==
  [b EXCEPT !.i = i,
            !.emitted = Append(b.emitted,
                               BatchItem(b.rows[i + 1], i, b.effectiveTotal,
                                         b.experimentInfo, b.runId))]
RECURSIVE BatchLoopIgnoringClose(_, _)
\* variant: the loop condition does not look at cancelled
BatchLoopIgnoringClose(b, i) ==
  IF i < Len(b.rows)
    THEN IF b.emitIntervalMs > 0
           THEN [BatchEmitAt(b, i) EXCEPT !.pc = "waiting"]
           ELSE BatchLoopIgnoringClose(BatchEmitAt(b, i), i + 1)
    ELSE [b EXCEPT !.i = i, !.pc = "done"]
RECURSIVE BatchLoop(_, _)
\* run() from index i up to its first await, or to its end
BatchLoop(b, i) ==
  IF i < Len(b.rows) /\ ~b.cancelled
    THEN IF b.emitIntervalMs > 0
           THEN [BatchEmitAt(b, i) EXCEPT !.pc = "waiting"]
           ELSE BatchLoop(BatchEmitAt(b, i), i + 1)
    ELSE [b EXCEPT !.i = i, !.pc = "done"]

\* trigger() from the dataset response on
BatchStart(c, b, resp, draws, obs) ==
  LET data == DataNullish(resp)
      fetched == [obs EXCEPT !.fetches = 1, !.fetched = resp]
  IN  IF resp.kind = "error"
        THEN [batch |-> [b EXCEPT !.pc = "failed"],
              obs |-> [fetched EXCEPT !.outcome = "RequestError"]]
      ELSE IF IsEmptyCollection(data)
        THEN [batch |-> [b EXCEPT !.pc = "failed"],
              obs |-> [fetched EXCEPT !.outcome = "CollectionEmpty"]]
      ELSE LET shuffleRows == OrDefault(c.opts.shuffleRows, FALSE)
               entries == IF shuffleRows THEN Shuffle(data.data, draws) ELSE data.data
               window == BatchWindow(entries, c.opts)
               effectiveTotal == EffectiveTotal(c.opts, window, BatchMaxRowsDefault)
               ready == [b EXCEPT !.rows = BatchLimit(window, effectiveTotal),
                                  !.effectiveTotal = effectiveTotal,
                                  !.emitIntervalMs = c.emitIntervalMs]
           IN  [batch |-> BatchLoop(ready, 0),
                obs |-> [fetched EXCEPT !.outcome = "started",
                                        !.shuffles = IF shuffleRows THEN 1 ELSE 0,
                                        !.snapshot = entries, !.rows = window,
                                        !.effectiveTotal = effectiveTotal]]

BatchTrigger ==
  /\ impl = "batch"
  /\ batch.pc = "inactive"
  /\ LET e == cfg.experimentConfig
         obs == CallStart("batch", TRUE)
     IN  IF e.enableExperiment /\ e.experimentId = "" /\ e.experimentSlug = ""
           THEN /\ batch' = [batch EXCEPT !.pc = "failed"]
                /\ last' = [obs EXCEPT !.outcome = "InvalidExperiment"]
         ELSE \E init \in (IF e.enableExperiment THEN InitResponses ELSE {"none"}) :
           LET b == [batch EXCEPT
                       !.runId = IF e.enableExperiment THEN Some(RunIdValue) ELSE Unset,
                       !.initRequests = IF e.enableExperiment THEN 1 ELSE 0,
                       !.experimentInfo = IF init = "info" THEN Some(ExperimentInfo) ELSE Unset]
           IN  IF init = "error"
                 THEN /\ batch' = [b EXCEPT !.pc = "failed"]
                      /\ last' = [obs EXCEPT !.outcome = "RequestError"]
                 ELSE \E resp \in Responses : \E draws \in CallDraws(cfg.opts, resp) :
                        LET r == BatchStart(cfg, b, resp, draws, obs)
                        IN  batch' = r.batch /\ last' = r.obs
  /\ UNCHANGED <<impl, cfg, staticData, run, win, shuf, ev, lim, pipe>>

\* the timer of `await new Promise((r) => setTimeout(r, emitIntervalMs))` fires:
\* i++, then the loop condition
BatchResume ==
  /\ impl = "batch"
  /\ batch.pc = "waiting"
  /\ batch' = BatchLoop(batch, batch.i + 1)
  /\ UNCHANGED <<impl, cfg, staticData, last, run, win, shuf, ev, lim, pipe>>

\* closeFunction: clear()
BatchClose ==
  /\ impl = "batch"
  /\ batch.pc \in {"waiting", "done"}
  /\ ~batch.cancelled
  /\ batch' = [batch EXCEPT !.cancelled = TRUE]
  /\ UNCHANGED <<impl, cfg, staticData, last, run, win, shuf, ev, lim, pipe>>

(***************************************************************************)
(* The window computation on its own: the three triggers' Working Sets of  *)
(* one snapshot under one setting of startRow, endRow and stepSize.        *)
(***************************************************************************)
NoWindow ==
  [applied |-> FALSE, snapshot |-> <<>>, opts |-> NoOptions,
   resumable |-> <<>>, stepwise |-> <<>>, batch |-> <<>>]
WindowInputs ==
  {[NoWindow EXCEPT !.snapshot = RowsOfLength(n), !.opts.startRow = a,
                    !.opts.endRow = b, !.opts.stepSize = c] :
     n \in 1..MaxSnap,
     a \in {Unset} \cup {Some(v) : v \in (-2)..(MaxSnap + 1)},
     b \in {Unset} \cup {Some(v) : v \in (-3)..(MaxSnap + 1)},
     c \in {Unset} \cup {Some(v) : v \in (-1)..(MaxSnap + 1)}}

ApplyWindow ==
  /\ ~win.applied
  /\ win' = [win EXCEPT !.applied = TRUE,
                        !.resumable = RowWindow(win.snapshot, win.opts),
                        !.stepwise = StepWindow(win.snapshot, win.opts),
                        !.batch = BatchWindow(win.snapshot, win.opts)]
  /\ UNCHANGED <<impl, cfg, staticData, last, run, batch, shuf, ev, lim, pipe>>

(***************************************************************************)
(* Evaluation node: LangWatchEvaluation.execute.  An input item's json is  *)
(* modelled by the fields the node reads or writes: a payload id, the      *)
(* optional _langwatch object with its optional batch context and the      *)
(* flags the node writes, the optional batchEvaluation context and the     *)
(* optional evaluation field.  A context is modelled by its runId, ""      *)
(* standing for a context without one.                                     *)
(***************************************************************************)
RunIds == {"", "run-1", "run-2"}
Context(runId) == [runId |-> runId]
LangWatchField(batchCtx) ==
  [batch |-> batchCtx, recorded |-> FALSE, lastEvaluation |-> Unset, datasetWrite |-> Unset]
\* _progress of an item: current and total, each of which may be missing
Progress(current, total) == [current |-> current, total |-> total]
ItemJson(id, lw, batchEvaluation, evaluation, progress) ==
  [id |-> id, _langwatch |-> lw, batchEvaluation |-> batchEvaluation,
   evaluation |-> evaluation, isEvaluating |-> Unset, _progress |-> progress]
\* the shapes of item the node is run on: what _langwatch and batchEvaluation
\* hold, whether an evaluation field is there, and what _progress holds
ItemShapes ==
  {[lw |-> Unset, be |-> Unset, ev |-> Unset, pr |-> Unset],
   [lw |-> Unset, be |-> Unset, ev |-> Some("earlier"),
    pr |-> Some(Progress(Some(2), Some(2)))],
   [lw |-> Unset, be |-> Some(Context("")), ev |-> Unset,
    pr |-> Some(Progress(Some(1), Unset))],
   [lw |-> Some(LangWatchField(Unset)), be |-> Some(Context("run-2")), ev |-> Unset,
    pr |-> Some(Progress(Some(1), Some(2)))],
   [lw |-> Some(LangWatchField(Some(Context("")))), be |-> Some(Context("run-2")), ev |-> Unset,
    pr |-> Some(Progress(Unset, Some(2)))],
   [lw |-> Some(LangWatchField(Some(Context("run-1")))), be |-> Unset, ev |-> Unset,
    pr |-> Some(Progress(Some(2), Some(2)))],
   [lw |-> Some(LangWatchField(Some(Context("run-1")))), be |-> Some(Context("run-2")),
    ev |-> Some("earlier"), pr |-> Unset]}
\* this.getInputData(): sequences of items, item k carrying id k
ItemsOfLength(n) ==
  {[k \in 1..n |-> ItemJson(k, f[k].lw, f[k].be, f[k].ev, f[k].pr)] : f \in [1..n -> ItemShapes]}

\* !!v for a string
Truthy(str) == str # ""
\* variant: batchEvaluation is looked at before _langwatch.batch
GetCtxBatchEvaluationFirst(items, i) ==
  IF i > Len(items) THEN Unset
  ELSE LET j == items[i]
       IN  IF j.batchEvaluation # Unset
             THEN j.batchEvaluation
             ELSE IF j._langwatch # Unset THEN j._langwatch[1].batch ELSE Unset
\* j?._langwatch?.batch || j?.batchEvaluation || null, for items[i]?.json
GetCtx(items, i) ==
  IF i > Len(items) THEN Unset
  ELSE LET j == items[i]
       IN  IF j._langwatch # Unset /\ j._langwatch[1].batch # Unset
             THEN j._langwatch[1].batch
             ELSE j.batchEvaluation
\* ctx?.runId as a string, "" when there is none
CtxRunId(ctx) == IF ctx = Unset THEN "" ELSE ctx[1].runId

\* the values of the two json parameters: empty, '{}', '""' and a payload
JsonTexts == {"", "{}", "\"\"", "{..}"}
\* !!raw && raw !== '{}' && raw !== '""'
HasJson(raw) == Truthy(raw) /\ raw # "{}" /\ raw # "\"\""
\* variant: the evaluator and the evaluation data are looked at before the
\* dataset slug and the custom fields
ResolveOperationEvaluatorFirst(p, items) ==
  IF p.operation # "auto" THEN p.operation
  ELSE LET hasEvaluator == Truthy(IF p.evaluatorSelectionMethod = "dropdown"
                                    THEN p.evaluatorSelect ELSE p.evaluatorId)
       IN  IF hasEvaluator \/ HasJson(p.evaluationData) THEN "runAndRecord"
           ELSE IF Truthy(p.datasetSlug) \/ (p.format = "custom" /\ Len(p.outputs) > 0)
             THEN "setOutputs"
           ELSE IF HasJson(p.result) \/ (Len(items) >= 1 /\ items[1].evaluation # Unset)
             THEN "recordResult"
           ELSE "checkIfEvaluating"
\* resolveOperation(0) for the parameters p
ResolveOperation(p, items) ==
  IF p.operation # "auto" THEN p.operation
  ELSE LET hasDatasetSlug == Truthy(p.datasetSlug)
           isCustomFormat == p.format = "custom"
           customFields == p.outputs
           hasEvaluator == Truthy(IF p.evaluatorSelectionMethod = "dropdown"
                                    THEN p.evaluatorSelect ELSE p.evaluatorId)
           hasEvalData == HasJson(p.evaluationData)
           hasResultParam == HasJson(p.result)
           hasResultInItem == Len(items) >= 1 /\ items[1].evaluation # Unset
       IN  IF hasDatasetSlug \/ (isCustomFormat /\ Len(customFields) > 0) THEN "setOutputs"
           ELSE IF hasEvaluator \/ hasEvalData THEN "runAndRecord"
           ELSE IF hasResultParam \/ hasResultInItem THEN "recordResult"
           ELSE "checkIfEvaluating"

\* typeof raw === 'string' && raw ? JSON.parse(raw) : raw, the values named by
\* what they are
ParseJson(raw) ==
  CASE raw = "" -> "string:empty"
    [] raw = "{}" -> "object:empty"
    [] raw = "\"\"" -> "string:empty"
    [] OTHER -> "object:payload"

\* what the service answers during one execution: the evaluator's answer for
\* each item (passed true, passed false, no passed field, or a failed
\* request), which log_results request fails (0: none) and whether the
\* dataset write succeeds
EvaluateAnswers == {"passed", "failed", "noVerdict", "error"}
Services(n) ==
  [evaluate : [1..n -> EvaluateAnswers], logFailsAt : 0..n, entriesOk : BOOLEAN]

\* the execution so far: the items pushed, the requests sent, and the error
\* thrown, if any
Running == [out |-> <<>>, requests |-> <<>>, logs |-> 0, error |-> ""]
Sent(acc, url, i, runId, answer) ==
  [acc EXCEPT !.requests = Append(acc.requests,
                                  [url |-> url, item |-> i, run_id |-> runId,
                                   answer |-> answer, progress |-> Unset,
                                   total |-> Unset, finished |-> FALSE])]
\* current != null && total != null && current === total
IsFinished(current, total) == current # Unset /\ total # Unset /\ current = total
\* the log_results request of item i: progress, total and timestamps.finished_at
\* (finished: whether it is a date or null) come from the item's _progress
SentLog(acc, items, i, runId, answer) ==
  LET prog == items[i]._progress
      current == IF prog = Unset THEN Unset ELSE prog[1].current
      total == IF prog = Unset THEN Unset ELSE prog[1].total
      sent == Sent(acc, "log_results", i, runId, answer)
      k == Len(sent.requests)
  IN  [sent EXCEPT !.requests[k].progress = current,
                   !.requests[k].total = total,
                   !.requests[k].finished = IsFinished(current, total),
                   !.logs = acc.logs + 1]
Thrown(acc, error) == [acc EXCEPT !.error = error]

\* variant: the runId of the item's context wins over the Run ID parameter
LogBatchContextFirst(acc, p, items, srv, i) ==
  LET fromCtx == CtxRunId(GetCtx(items, i))
      runId == IF Truthy(fromCtx) THEN fromCtx ELSE p.runId
  IN  IF ~Truthy(runId) THEN acc
      ELSE LET fails == srv.logFailsAt = acc.logs + 1
               sent == SentLog(acc, items, i, runId, IF fails THEN "error" ELSE "ok")
           IN  IF fails THEN Thrown(sent, "RequestError") ELSE sent
\* logBatch(i, evaluation)
LogBatch(acc, p, items, srv, i) ==
  LET runId == IF Truthy(p.runId) THEN p.runId ELSE CtxRunId(GetCtx(items, i))
  IN  IF ~Truthy(runId) THEN acc
      ELSE LET fails == srv.logFailsAt = acc.logs + 1
               sent == SentLog(acc, items, i, runId, IF fails THEN "error" ELSE "ok")
           IN  IF fails THEN Thrown(sent, "RequestError") ELSE sent

\* { ...items[i].json?._langwatch, ...written }
SpreadLangWatch(j) == IF j._langwatch = Unset THEN LangWatchField(Unset) ELSE j._langwatch[1]
\* variant: the item is paired with the input item after its own
PairedWithNext(json, i) == [json |-> json, pairedItem |-> i]
\* { json, pairedItem: { item: i } } for the i-th item, counted from 1 here
Paired(json, i) == [json |-> json, pairedItem |-> i - 1]

\* case 'checkIfEvaluating': the items going to the first and second output
RECURSIVE CheckLoop(_, _, _, _)
CheckLoop(items, i, yes, no) ==
  IF i > Len(items) THEN [yes |-> yes, no |-> no]
  ELSE LET isEvaluating == Truthy(CtxRunId(GetCtx(items, i)))
           out == Paired([items[i] EXCEPT !.isEvaluating = Some(isEvaluating)], i)
       IN  IF isEvaluating THEN CheckLoop(items, i + 1, Append(yes, out), no)
                           ELSE CheckLoop(items, i + 1, yes, Append(no, out))

\* case 'recordResult': the loop from item i
RECURSIVE RecordLoop(_, _, _, _, _)
RecordLoop(acc, p, items, srv, i) ==
  IF i > Len(items) THEN acc
  ELSE LET evaluation == ParseJson(p.result)
           logged == LogBatch(acc, p, items, srv, i)
           json == [items[i] EXCEPT
                      !._langwatch = Some([SpreadLangWatch(items[i]) EXCEPT
                                             !.recorded = TRUE,
                                             !.lastEvaluation = Some(evaluation)])]
       IN  IF logged.error # "" THEN logged
           ELSE RecordLoop([logged EXCEPT !.out = Append(logged.out, Paired(json, i))],
                           p, items, srv, i + 1)

\* variant: the result is logged before the verdict is looked at
RECURSIVE RunLoopLogFirst(_, _, _, _, _)
RunLoopLogFirst(acc, p, items, srv, i) ==
  IF i > Len(items) THEN acc
  ELSE LET evaluatorId == IF p.evaluatorSelectionMethod = "dropdown"
                            THEN p.evaluatorSelect ELSE p.evaluatorId
           answer == srv.evaluate[i]
           asked == Sent(acc, "evaluate", i, "", answer)
           logged == LogBatch(asked, p, items, srv, i)
           json == [items[i] EXCEPT
                      !.evaluation = Some(answer),
                      !._langwatch = Some([SpreadLangWatch(items[i]) EXCEPT
                                             !.recorded = TRUE])]
       IN  IF ~Truthy(evaluatorId) THEN Thrown(acc, "Missing evaluator ID")
           ELSE IF answer = "error" THEN Thrown(asked, "RequestError")
           ELSE IF logged.error # "" THEN logged
           ELSE IF p.failOnFail /\ answer = "failed" THEN Thrown(logged, "Evaluation failed")
           ELSE RunLoopLogFirst([logged EXCEPT !.out = Append(logged.out, Paired(json, i))],
                                p, items, srv, i + 1)
\* case 'runAndRecord': the loop from item i
RECURSIVE RunLoop(_, _, _, _, _)
RunLoop(acc, p, items, srv, i) ==
  IF i > Len(items) THEN acc
  ELSE LET evaluatorId == IF p.evaluatorSelectionMethod = "dropdown"
                            THEN p.evaluatorSelect ELSE p.evaluatorId
           answer == srv.evaluate[i]
           asked == Sent(acc, "evaluate", i, "", answer)
           logged == LogBatch(asked, p, items, srv, i)
           json == [items[i] EXCEPT
                      !.evaluation = Some(answer),
                      !._langwatch = Some([SpreadLangWatch(items[i]) EXCEPT
                                             !.recorded = TRUE])]
       IN  IF ~Truthy(evaluatorId) THEN Thrown(acc, "Missing evaluator ID")
           ELSE IF answer = "error" THEN Thrown(asked, "RequestError")
           ELSE IF p.failOnFail /\ answer = "failed" THEN Thrown(asked, "Evaluation failed")
           ELSE IF logged.error # "" THEN logged
           ELSE RunLoop([logged EXCEPT !.out = Append(logged.out, Paired(json, i))],
                        p, items, srv, i + 1)

\* case 'setOutputs'
SetOutputs(acc, p, items, srv) ==
  LET posted == Sent(acc, "entries", 0, "", IF srv.entriesOk THEN "ok" ELSE "error")
      written(i) ==
        [items[i] EXCEPT
           !._langwatch = Some([SpreadLangWatch(items[i]) EXCEPT
                                  !.datasetWrite = Some([datasetSlug |-> p.datasetSlug,
                                                         index |-> i - 1,
                                                         written |-> TRUE])])]
  IN  IF ~Truthy(p.datasetSlug) THEN Thrown(acc, "Dataset slug is required")
      ELSE IF /\ p.format # "standard" /\ Len(items) >= 1
              /\ \E f \in 1..Len(p.outputs) : ~Truthy(p.outputs[f])
        THEN Thrown(acc, "Output field name is required")
      ELSE IF ~srv.entriesOk THEN Thrown(posted, "RequestError")
      ELSE [posted EXCEPT !.out = [i \in 1..Len(items) |-> Paired(written(i), i)]]

\* execute: what it returns on its two outputs, or the error it throws, and
\* the requests it sent
Execute(p, items, srv) ==
  LET operation == ResolveOperation(p, items)
      done(acc) ==
        [operation |-> operation, error |-> acc.error, requests |-> acc.requests,
         out1 |-> IF acc.error = "" THEN acc.out ELSE <<>>, out2 |-> <<>>]
  IN  CASE operation = "checkIfEvaluating" ->
             LET r == CheckLoop(items, 1, <<>>, <<>>)
             IN  [operation |-> operation, error |-> "", requests |-> <<>>,
                  out1 |-> r.yes, out2 |-> r.no]
        [] operation = "recordResult" -> done(RecordLoop(Running, p, items, srv, 1))
        [] operation = "runAndRecord" -> done(RunLoop(Running, p, items, srv, 1))
        [] operation = "setOutputs" -> done(SetOutputs(Running, p, items, srv))
        [] OTHER -> done(Thrown(Running, "Unsupported operation"))

\* the parameters of the node, every one at its empty value
NoParams ==
  [operation |-> "auto", result |-> "", runId |-> "",
   evaluatorSelectionMethod |-> "manual", evaluatorId |-> "", evaluatorSelect |-> "",
   evaluationData |-> "", failOnFail |-> TRUE,
   datasetSlug |-> "", format |-> "standard", outputs |-> <<>>]
Operations == {"auto", "checkIfEvaluating", "recordResult", "runAndRecord", "setOutputs"}
\* the settings the executions are exercised with: each operation chosen by
\* name and by Auto, with and without a Run ID, an evaluator and a dataset slug
EvalConfigs ==
  {NoParams,
   [NoParams EXCEPT !.operation = "checkIfEvaluating", !.result = "{..}"],
   [NoParams EXCEPT !.operation = "recordResult", !.result = "{..}"],
   [NoParams EXCEPT !.operation = "recordResult", !.runId = "run-p"],
   [NoParams EXCEPT !.result = "{..}"],
   [NoParams EXCEPT !.operation = "runAndRecord", !.evaluatorId = "ev-1"],
   [NoParams EXCEPT !.operation = "runAndRecord", !.evaluatorSelectionMethod = "dropdown",
                    !.evaluatorSelect = "ev-2", !.failOnFail = FALSE],
   [NoParams EXCEPT !.evaluatorId = "ev-1", !.runId = "run-p", !.failOnFail = FALSE],
   [NoParams EXCEPT !.evaluationData = "{..}"],
   [NoParams EXCEPT !.operation = "setOutputs", !.datasetSlug = "out"],
   [NoParams EXCEPT !.operation = "setOutputs"],
   [NoParams EXCEPT !.datasetSlug = "out", !.format = "custom", !.outputs = <<"f", "">>],
   [NoParams EXCEPT !.format = "custom", !.outputs = <<"f">>],
   [NoParams EXCEPT !.datasetSlug = "out", !.format = "custom", !.outputs = <<"f">>,
                    !.evaluatorId = "ev-1", !.result = "{..}"]}
\* every filling of the fields that Auto looks at, under every operation
ResolveConfigs ==
  {[NoParams EXCEPT !.operation = op, !.datasetSlug = slug, !.format = format,
                    !.outputs = outputs, !.evaluatorSelectionMethod = method,
                    !.evaluatorSelect = selected, !.evaluatorId = typed,
                    !.evaluationData = data, !.result = result] :
     op \in Operations, slug \in {"", "out"}, format \in {"standard", "custom"},
     outputs \in {<<>>, <<"f">>}, method \in {"manual", "dropdown"},
     selected \in {"", "ev-2"}, typed \in {"", "ev-1"},
     data \in JsonTexts, result \in JsonTexts}

NoExecution ==
  [pc |-> "none", params |-> NoParams, items |-> <<>>,
   operation |-> "", error |-> "", requests |-> <<>>, out1 |-> <<>>, out2 |-> <<>>]
EvalInputs ==
  {[NoExecution EXCEPT !.pc = "ready", !.params = p, !.items = items] :
     p \in EvalConfigs, items \in UNION {ItemsOfLength(n) : n \in 0..MaxItems}}
ResolveInputs ==
  {[NoExecution EXCEPT !.pc = "ready", !.params = p, !.items = items] :
     p \in ResolveConfigs, items \in ItemsOfLength(0) \cup ItemsOfLength(1)}

\* LangWatchEvaluation.execute on the input, with what the service answers
EvalExecute ==
  /\ ev.pc = "ready"
  /\ \E srv \in Services(Len(ev.items)) :
       \E r \in {Execute(ev.params, ev.items, srv)} :
           ev' = [ev EXCEPT !.pc = "done", !.operation = r.operation, !.error = r.error,
                            !.requests = r.requests, !.out1 = r.out1, !.out2 = r.out2]
  /\ UNCHANGED <<impl, cfg, staticData, last, run, batch, win, shuf, lim, pipe>>

(***************************************************************************)
(* The two row-limit policies side by side: one snapshot, left unshuffled, *)
(* one setting of the window and the limit, emitted by one batch run that  *)
(* nothing closes and by resumable calls made one after the other on       *)
(* static data that starts empty.                                          *)
(***************************************************************************)
NoLimitRun == [state |-> "none", snapshot |-> <<>>, calls |-> 0, emitted |-> <<>>]
LimitSnapshots == {RowsOfLength(n) : n \in (1..MaxRun) \cup {RowMaxRowsDefault + 1}}
LimitOptions ==
  {[NoOptions EXCEPT !.shuffleRows = shuffleRows, !.shuffleSeed = seed,
                     !.startRow = a, !.endRow = b, !.stepSize = c,
                     !.limitRows = limitRows, !.maxRows = maxRows] :
     shuffleRows \in {Unset, Some(FALSE)}, seed \in SeedOptions,
     a \in {Unset, Some(1)}, b \in {Unset, Some(1)}, c \in {Unset, Some(2)},
     limitRows \in {Unset, Some(TRUE)},
     maxRows \in {Unset} \cup {Some(v) : v \in (-1)..MaxRun}}
\* the body GET /api/dataset/{id} returns on every fetch of the comparison
LimitResponse == [kind |-> "array", data |-> lim.snapshot]

\* one more call of the resumable trigger, until it throws
LimitRowCall ==
  /\ lim.state = "calling"
  /\ lim.calls <= Len(lim.snapshot)
  /\ LET needsReload == RowNeedsReload(staticData, cfg.datasetId, cfg.opts)
         obs == CallStart("resumable", needsReload)
         r == IF needsReload
                THEN RowReload(staticData, cfg.datasetId, cfg.opts, LimitResponse, <<>>, obs)
                ELSE RowEmit(staticData, cfg.opts,
                             [obs EXCEPT !.snapshot = staticData.processedDataset[1]])
     IN  /\ staticData' = r.sd
         /\ last' = r.obs
         /\ lim' = [lim EXCEPT
                      !.calls = lim.calls + 1,
                      !.state = IF r.obs.outcome = "row" THEN "calling" ELSE r.obs.outcome,
                      !.emitted = IF r.obs.outcome = "row"
                                    THEN Append(lim.emitted, r.obs.out[1]) ELSE lim.emitted]
  /\ UNCHANGED <<impl, cfg, run, batch, win, shuf, ev, pipe>>

\* trigger() of the batch trigger on the same snapshot, without an experiment
LimitBatchRun ==
  /\ lim.state # "none"
  /\ batch.pc = "inactive"
  /\ batch' = BatchStart(cfg, batch, LimitResponse, <<>>, CallStart("batch", TRUE)).batch
  /\ UNCHANGED <<impl, cfg, staticData, last, run, win, shuf, ev, lim, pipe>>

\* the timer between two emissions of the batch run fires
LimitBatchResume ==
  /\ lim.state # "none"
  /\ batch.pc = "waiting"
  /\ batch' = BatchLoop(batch, batch.i + 1)
  /\ UNCHANGED <<impl, cfg, staticData, last, run, win, shuf, ev, lim, pipe>>

(***************************************************************************)
(* The batch trigger feeding the Evaluation node: every emission starts an *)
(* execution of the workflow on the one emitted item, and the executions   *)
(* reach the Evaluation node in emission order.                            *)
(***************************************************************************)
NoPipeline == [on |-> FALSE, params |-> NoParams, next |-> 0, sent |-> <<>>, failed |-> FALSE]
PipelineConfigs ==
  {[NoParams EXCEPT !.operation = "recordResult", !.result = "{..}"],
   [NoParams EXCEPT !.operation = "runAndRecord", !.evaluatorId = "ev-1"],
   [NoParams EXCEPT !.evaluatorId = "ev-1", !.runId = "run-p", !.failOnFail = FALSE]}
\* the json of an emitted item as the Evaluation node reads it (emitRow)
AsInput(item) ==
  LET ctx == IF item.batch = Unset THEN Unset
             ELSE Some(Context(OrDefault(item.batch[1].runId, "")))
  IN  ItemJson(item.row, Some(LangWatchField(ctx)), ctx, Unset,
               Some(Progress(Some(item.progress.current), Some(item.progress.total))))
\* the log_results requests among the requests of an execution on `item'
LogsOf(requests, item) ==
  LET logs == SelectSeq(requests, LAMBDA r : r.url = "log_results")
  IN  [k \in 1..Len(logs) |->
         [row_number |-> item.row_number, run_id |-> logs[k].run_id,
          progress |-> logs[k].progress, total |-> logs[k].total,
          finished |-> logs[k].finished, answer |-> logs[k].answer]]

\* the execution the next emitted item starts gets to the Evaluation node
PipeEvaluate ==
  /\ pipe.on
  /\ pipe.next < Len(batch.emitted)
  /\ \E srv \in Services(1) :
       \E r \in {Execute(pipe.params, <<AsInput(batch.emitted[pipe.next + 1])>>, srv)} :
           pipe' = [pipe EXCEPT
                      !.next = pipe.next + 1,
                      !.sent = pipe.sent \o LogsOf(r.requests, batch.emitted[pipe.next + 1]),
                      !.failed = pipe.failed \/ r.error # ""]
  /\ UNCHANGED <<impl, cfg, staticData, last, run, batch, win, shuf, ev, lim>>

(***************************************************************************)
(* The shuffle on its own: two reloads of the resumable row trigger and a  *)
(* start of the batch trigger, each shuffling the same fetched sequence    *)
(* under the same shuffleSeed with its own random source.                  *)
(***************************************************************************)
NoShuffle ==
  [done |-> FALSE, seed |-> Unset, fetched |-> <<>>,
   first |-> <<>>, second |-> <<>>, batch |-> <<>>]
\* the seeds: unset, 0 ("random"), and numbers on both sides of the coercion
\* to an unsigned word
ShuffleSeeds == {Unset} \cup {Some(v) : v \in {0, 1, 7, 42, -1, -42, 123456789, 2147483647}}
ShuffleInputs ==
  {[NoShuffle EXCEPT !.seed = seed, !.fetched = RowsOfLength(n)] :
     seed \in ShuffleSeeds, n \in 0..MaxShuffle}
    \ {i \in {[NoShuffle EXCEPT !.seed = seed, !.fetched = RowsOfLength(n)] :
                seed \in {Unset, Some(0)}, n \in 0..MaxShuffle} :
          Len(i.fetched) > MaxUnseeded}

ApplyShuffle ==
  /\ ~shuf.done
  /\ \E d1, d2, d3 \in ShuffleDraws(shuf.seed, Len(shuf.fetched)) :
       shuf' = [shuf EXCEPT !.done = TRUE,
                            !.first = Shuffle(shuf.fetched, d1),
                            !.second = Shuffle(shuf.fetched, d2),
                            !.batch = Shuffle(shuf.fetched, d3)]
  /\ UNCHANGED <<impl, cfg, staticData, last, run, batch, win, ev, lim, pipe>>

Init ==
  /\ impl \in {"resumable", "stepwise", "batch"}
  /\ cfg = [datasetId |-> "ds1", opts |-> NoOptions,
            experimentConfig |-> [enableExperiment |-> FALSE, experimentId |-> "",
                                  experimentSlug |-> ""],
            emitIntervalMs |-> 0]
  /\ staticData = EmptyStaticData
  /\ last = NoCall
  /\ run = [n |-> 0, steady |-> TRUE, data |-> <<>>]
  /\ batch = NoBatch
  /\ win = NoWindow
  /\ shuf = NoShuffle
  /\ ev = NoExecution
  /\ lim = NoLimitRun
  /\ pipe = NoPipeline

InitWindow ==
  /\ impl = "none"
  /\ cfg = [datasetId |-> "ds1", opts |-> NoOptions,
            experimentConfig |-> [enableExperiment |-> FALSE, experimentId |-> "",
                                  experimentSlug |-> ""],
            emitIntervalMs |-> 0]
  /\ staticData = EmptyStaticData
  /\ last = NoCall
  /\ run = [n |-> 0, steady |-> TRUE, data |-> <<>>]
  /\ batch = NoBatch
  /\ win \in WindowInputs
  /\ shuf = NoShuffle
  /\ ev = NoExecution
  /\ lim = NoLimitRun
  /\ pipe = NoPipeline

Next ==
  \/ Configure
  \/ RowExecute
  \/ StepExecute
  \/ BatchTrigger
  \/ BatchResume
  \/ BatchClose

Spec == Init /\ [][Next]_vars

NextWindow == ApplyWindow

SpecWindow == InitWindow /\ [][NextWindow]_vars

InitShuffle ==
  /\ impl = "none"
  /\ cfg = [datasetId |-> "ds1", opts |-> NoOptions,
            experimentConfig |-> [enableExperiment |-> FALSE, experimentId |-> "",
                                  experimentSlug |-> ""],
            emitIntervalMs |-> 0]
  /\ staticData = EmptyStaticData
  /\ last = NoCall
  /\ run = [n |-> 0, steady |-> TRUE, data |-> <<>>]
  /\ batch = NoBatch
  /\ win = NoWindow
  /\ shuf \in ShuffleInputs
  /\ ev = NoExecution
  /\ lim = NoLimitRun
  /\ pipe = NoPipeline

NextShuffle == ApplyShuffle

SpecShuffle == InitShuffle /\ [][NextShuffle]_vars

Idle ==
  /\ impl = "none"
  /\ cfg = [datasetId |-> "ds1", opts |-> NoOptions,
            experimentConfig |-> [enableExperiment |-> FALSE, experimentId |-> "",
                                  experimentSlug |-> ""],
            emitIntervalMs |-> 0]
  /\ staticData = EmptyStaticData
  /\ last = NoCall
  /\ run = [n |-> 0, steady |-> TRUE, data |-> <<>>]
  /\ batch = NoBatch
  /\ win = NoWindow
  /\ shuf = NoShuffle
  /\ lim = NoLimitRun
  /\ pipe = NoPipeline

InitEval == Idle /\ ev \in EvalInputs

InitResolve == Idle /\ ev \in ResolveInputs

NextEval == EvalExecute

InitLimit ==
  /\ impl = "none"
  /\ \E opts \in LimitOptions, ms \in EmitIntervals :
       cfg = [datasetId |-> "ds1", opts |-> opts,
              experimentConfig |-> [enableExperiment |-> FALSE, experimentId |-> "",
                                    experimentSlug |-> ""],
              emitIntervalMs |-> ms]
  /\ staticData = EmptyStaticData
  /\ last = NoCall
  /\ run = [n |-> 0, steady |-> TRUE, data |-> <<>>]
  /\ batch = NoBatch
  /\ win = NoWindow
  /\ shuf = NoShuffle
  /\ ev = NoExecution
  /\ \E snapshot \in LimitSnapshots :
       lim = [NoLimitRun EXCEPT !.state = "calling", !.snapshot = snapshot]
  /\ pipe = NoPipeline

InitPipeline ==
  /\ impl = "batch"
  /\ \E w \in Windows, e \in ExperimentConfigs, ms \in EmitIntervals :
       cfg = [datasetId |-> "ds1", opts |-> WithWindow(NoOptions, w),
              experimentConfig |-> e, emitIntervalMs |-> ms]
  /\ staticData = EmptyStaticData
  /\ last = NoCall
  /\ run = [n |-> 0, steady |-> TRUE, data |-> <<>>]
  /\ batch = NoBatch
  /\ win = NoWindow
  /\ shuf = NoShuffle
  /\ ev = NoExecution
  /\ lim = NoLimitRun
  /\ \E p \in PipelineConfigs : pipe = [NoPipeline EXCEPT !.on = TRUE, !.params = p]

NextPipeline ==
  \/ BatchTrigger
  \/ BatchResume
  \/ BatchClose
  \/ PipeEvaluate

SpecPipeline == InitPipeline /\ [][NextPipeline]_vars

NextLimit ==
  \/ LimitRowCall
  \/ LimitBatchRun
  \/ LimitBatchResume

SpecLimit == InitLimit /\ [][NextLimit]_vars

SpecEval == InitEval /\ [][NextEval]_vars

SpecResolve == InitResolve /\ [][NextEval]_vars

(***************************************************************************)
(* Properties.                                                             *)
(***************************************************************************)
Cursor(sd) == OrDefault(sd.cursor, 0)
ResetRequested == cfg.opts.resetProgress = Some(TRUE)
Failures == {"CollectionEmpty", "RowsExhausted", "TransportFailure"}
\* a step that is a call of the resumable row trigger, of either row trigger
ResumableCall == impl = "resumable" /\ last'.call = "resumable"
RowTriggerCall == last'.call \in {"resumable", "stepwise"}
\* the previous call worked on a snapshot and the reload parameters were not
\* edited since
SameKeyAsLoadedCall ==
  \/ last.call \in {"resumable", "stepwise"} /\ last.outcome \in {"row", "RowsExhausted"}
  \/ last.call = "none" /\ last.outcome = "loaded"
\* the fetch of the call returned a non-empty array
FetchedRows(obs) ==
  obs.fetches = 1 /\ obs.fetched.kind = "array" /\ Len(obs.fetched.data) > 0
\* the fetch of the call returned a body whose data field is missing (a null
\* body or a body without the field), empty or not an array
FetchedNothing(obs) ==
  /\ obs.fetches = 1
  /\ \/ obs.fetched.kind \in {"null", "missing", "falsy", "object"}
     \/ obs.fetched.kind = "array" /\ Len(obs.fetched.data) = 0

\* C1: from an empty static data, with the parameters never edited, no reset
\* requested and every fetch returning the same non-empty dataset, whose
\* Effective Total T is at least 1, call k <= T emits row_number k-1 with
\* _rowsLeft T-k, the Working Set row at that position, and call T+1 fails with
\* RowsExhausted.
C1_ResumableRun ==
  (impl = "resumable" /\ run.steady /\ run.n >= 1 /\ ~ResetRequested) =>
    LET T == EffectiveTotal(cfg.opts, RowWindow(run.data, cfg.opts), RowMaxRowsDefault) IN
    T >= 1 =>
      /\ run.n <= T =>
           /\ last.outcome = "row"
           /\ last.out[1].row_number = run.n - 1
           /\ last.out[1].rowsLeft = T - run.n
           /\ last.out[1].row = RowWindow(staticData.processedDataset[1], cfg.opts)[run.n]
      /\ run.n = T + 1 => last.outcome = "RowsExhausted"

C2Step ==
  (RowTriggerCall /\ SameKeyAsLoadedCall /\ ~ResetRequested) =>
    /\ last'.fetches = 0
    /\ last'.shuffles = 0
    /\ last'.snapshot = staticData.processedDataset[1]
    /\ staticData'.processedDataset = staticData.processedDataset
\* C2: a call of a caching row trigger that follows a call with the same
\* datasetId, shuffleRows and shuffleSeed, with no reset requested, performs no
\* fetch and no shuffle and works on the same snapshot, whether the options are
\* set or left unset.
C2_CacheStability == [][C2Step]_vars

\* the reload parameters of the call differ from the recorded ones, an unset
\* option standing for its default
KeyDiffers(sd) ==
  \/ sd.datasetId # Some(cfg.datasetId)
  \/ sd.shuffleRows # Some(OrDefault(cfg.opts.shuffleRows, FALSE))
  \/ sd.shuffleSeed # Some(OrDefault(cfg.opts.shuffleSeed, 0))
C3Reloads ==
  (ResetRequested \/ staticData.processedDataset = Unset \/ KeyDiffers(staticData))
    => last'.needsReload
C3Stores ==
  (last'.needsReload /\ FetchedRows(last')) =>
    /\ last'.fetches = 1
    /\ last'.shuffles <= 1
    /\ staticData'.processedDataset = Some(last'.snapshot)
    /\ ~KeyDiffers(staticData')
    /\ last'.currentIndex = 0
C3Step ==
  ResumableCall =>
    /\ C3Reloads
    /\ C3Stores
    /\ (last'.needsReload /\ FetchedRows(last')) =>
         IF last'.effectiveTotal >= 1
           THEN /\ last'.outcome = "row"
                /\ last'.out[1].row_number = 0
                /\ staticData'.cursor = Some(1)
           ELSE /\ last'.outcome = "RowsExhausted"
                /\ staticData'.cursor = Some(0)
\* C3: a call of the resumable row trigger reloads whenever a reset is
\* requested, nothing is cached or datasetId, shuffleRows or shuffleSeed differs
\* from the recorded value; a reloading call whose fetch returns rows fetches
\* once, shuffles at most once, records the key and starts from cursor 0: it
\* emits row_number 0 when the Effective Total is at least 1 and fails with
\* RowsExhausted, cursor 0 stored, when it is not.
C3_ReloadOnKeyChange == [][C3Step]_vars
\* C3, unconditional form: every reloading call whose fetch returns rows emits
\* row_number 0, whatever the Effective Total.
C3_ReloadAlwaysEmitsRowZero ==
  [][ResumableCall =>
       /\ C3Reloads
       /\ C3Stores
       /\ (last'.needsReload /\ FetchedRows(last')) =>
            (last'.outcome = "row" /\ last'.out[1].row_number = 0)]_vars
\* C3 witness: a changed seed made a later call reload, shuffle and emit row 0.
C3_Witness ==
  /\ impl = "resumable" /\ last.call = "resumable" /\ ~run.steady
  /\ last.needsReload /\ last.shuffles = 1 /\ cfg.opts.shuffleSeed = Some(42)
  /\ ~ResetRequested
  /\ last.outcome = "row" /\ last.out[1].row_number = 0
  /\ Len(last.snapshot) = MaxLen

C4Step ==
  ResumableCall =>
    /\ Cursor(staticData') < Cursor(staticData) => last'.needsReload
    /\ last'.outcome = "row" =>
         /\ Cursor(staticData') = last'.out[1].row_number + 1
         /\ ~last'.needsReload => Cursor(staticData') = Cursor(staticData) + 1
    /\ (last'.outcome # "row" /\ ~last'.needsReload) => staticData'.cursor = staticData.cursor
    /\ (staticData'.cursor = Some(0) /\ staticData.cursor # Some(0)) =>
         /\ last'.needsReload /\ FetchedRows(last')
         /\ staticData'.processedDataset = Some(last'.snapshot)
\* C4: across calls of the resumable row trigger the persisted cursor decreases
\* only in a call that reloads, grows by exactly 1 with each emission, is left
\* alone by a call that fails without reloading, and becomes 0 only in a call
\* that stores a freshly fetched snapshot.
C4_CursorMonotonic == [][C4Step]_vars
\* C4 witness: a call on the cached snapshot moved the cursor on to MaxLen.
C4_Witness ==
  /\ impl = "resumable" /\ last.call = "resumable" /\ ~last.needsReload
  /\ last.outcome = "row" /\ staticData.cursor = Some(MaxLen)

\* the item a successful emission with cursor c and Effective Total T yields
EmissionLaw(item, rows, c, T) ==
  /\ item.row = rows[c + 1]
  /\ item.row_number = c
  /\ item.rowsLeft = Max(0, T - (c + 1))
  /\ item.progress.current = c + 1
  /\ item.progress.total = T
  /\ item.progress.remaining = T - (c + 1)
  /\ item.progress.percentage = JsRound(100 * (c + 1), T)
\* C5: every item emitted by a row trigger or by the batch trigger is the
\* Working Set row at the cursor c, with row_number c, _rowsLeft max(0, T-(c+1)),
\* current c+1, total T, remaining T-(c+1) and percentage round(100*(c+1)/T).
C5_EmissionRecord ==
  /\ (last.call \in {"resumable", "stepwise"} /\ last.outcome = "row") =>
       EmissionLaw(last.out[1], last.rows, last.currentIndex, last.effectiveTotal)
  /\ \A k \in 1..Len(batch.emitted) :
       EmissionLaw(batch.emitted[k], last.rows, k - 1, last.effectiveTotal)

C6CacheHit ==
  (ResumableCall /\ ~last'.needsReload
     /\ Cursor(staticData) >=
          EffectiveTotal(cfg.opts, RowWindow(staticData.processedDataset[1], cfg.opts),
                         RowMaxRowsDefault)) =>
    /\ last'.outcome = "RowsExhausted"
    /\ last'.out = Unset
    /\ staticData' = staticData
C6Terminal ==
  (ResumableCall /\ last.call = "resumable" /\ last.outcome = "RowsExhausted"
     /\ ~ResetRequested) =>
    last'.outcome = "RowsExhausted"
\* C6: a call on a cache hit with cursor >= Effective Total fails with
\* RowsExhausted and changes nothing; and once a call has failed with
\* RowsExhausted the next call with the same parameters, no reset requested,
\* fails with RowsExhausted too.
C6_ExhaustionTerminal == [][C6CacheHit /\ C6Terminal]_vars

\* the rows of snapshot at positions start, start+step, ... up to endIncl
PositionsWindow(snapshot, start, endIncl, step) ==
  LET kept == {q \in 0..(Len(snapshot) - 1) :
                 q >= start /\ q <= endIncl /\ (q - start) % step = 0}
  IN  [k \in 1..Cardinality(kept) |-> snapshot[start + (k - 1) * step + 1]]
WinStart == OrDefault(win.opts.startRow, 0)
WinStep == OrDefault(win.opts.stepSize, 1)
WinLast == Len(win.snapshot) - 1
\* endRow is the 'all' sentinel of the resumable and batch triggers, of the
\* stepwise trigger
WinAllRow == win.opts.endRow = Unset \/ win.opts.endRow = Some(EndRowAll)
WinAllStep == win.opts.endRow = Unset
\* C7: for startRow >= 0, endRow >= 0 or 'all' and stepSize >= 1 the Working Set
\* of each trigger is the snapshot rows at positions startRow, startRow+stepSize,
\* ... not exceeding min(endRow, n-1), in snapshot order.
C7_WindowingCorrect ==
  (win.applied /\ WinStart >= 0 /\ WinStep >= 1) =>
    /\ (WinAllRow \/ win.opts.endRow[1] >= 0) =>
         LET endIncl == IF WinAllRow THEN WinLast ELSE Min(win.opts.endRow[1], WinLast)
             expected == PositionsWindow(win.snapshot, WinStart, endIncl, WinStep)
         IN  win.resumable = expected /\ win.batch = expected
    /\ (WinAllStep \/ win.opts.endRow[1] >= 0) =>
         LET endIncl == IF WinAllStep THEN WinLast ELSE Min(win.opts.endRow[1], WinLast)
         IN  win.stepwise = PositionsWindow(win.snapshot, WinStart, endIncl, WinStep)
\* C7 witness: startRow 1, endRow 3, stepSize 2 over four rows gives rows 2 and 4.
C7_Witness ==
  /\ win.applied /\ win.snapshot = <<1, 2, 3, 4>>
  /\ win.opts.startRow = Some(1) /\ win.opts.endRow = Some(3) /\ win.opts.stepSize = Some(2)
  /\ win.resumable = <<2, 4>> /\ win.stepwise = <<2, 4>> /\ win.batch = <<2, 4>>

\* the window parameters clamped: a negative startRow is 0, an endRow beyond the
\* snapshot is its last index, a negative endRow that is not the sentinel is 0,
\* a stepSize below 1 is 1
ClampedWindow(isAll) ==
  PositionsWindow(win.snapshot,
                  Max(0, WinStart),
                  IF isAll THEN WinLast ELSE Max(0, Min(win.opts.endRow[1], WinLast)),
                  Max(1, WinStep))
\* C8: every trigger computes the Working Set of the clamped parameters, and an
\* empty one for a startRow at or beyond the snapshot's length.
C8_WindowClamping ==
  win.applied =>
    /\ win.resumable = ClampedWindow(WinAllRow)
    /\ win.batch = ClampedWindow(WinAllRow)
    /\ win.stepwise = ClampedWindow(WinAllStep)
    /\ WinStart >= Len(win.snapshot) =>
         (win.resumable = <<>> /\ win.stepwise = <<>> /\ win.batch = <<>>)

C9Step ==
  (last'.call # "none" /\ FetchedNothing(last')) =>
    /\ last'.outcome = "CollectionEmpty"
    /\ last'.out = Unset
    /\ staticData' = staticData
    /\ batch'.emitted = <<>> /\ batch'.pc # "waiting"
\* C9: in every trigger a call whose fetch returns a missing, empty or non-array
\* data field fails with CollectionEmpty, emits nothing and leaves the static
\* data as it was.
C9_EmptyCollection == [][C9Step]_vars
\* C10: a call of the resumable row trigger that fails, in the reload branch or
\* not, leaves snapshot, reload key and cursor as they were.
C10_FailureAtomicity ==
  [][(ResumableCall /\ last'.outcome \in Failures) => staticData' = staticData]_vars

\* the four ways a call of a row trigger can end
RowOutcomes == {"row", "CollectionEmpty", "RowsExhausted", "TransportFailure"}
\* the fetch of the call itself failed (network, authentication, unparsable body)
FetchFailed(obs) == obs.fetches = 1 /\ obs.fetched.kind = "error"
\* C11: every call of a row trigger ends in exactly one of: one emitted row,
\* CollectionEmpty, RowsExhausted, TransportFailure; a failed fetch is always
\* reported as TransportFailure, and TransportFailure is reported only when the
\* fetch failed (so the other two failures are never re-wrapped); a call
\* returns an item exactly when it succeeds.
C11_ErrorTaxonomy ==
  last.call \in {"resumable", "stepwise"} =>
    /\ last.outcome \in RowOutcomes
    /\ (last.outcome = "row") <=> (last.out # Unset)
    /\ FetchFailed(last) => last.outcome = "TransportFailure"
    /\ last.outcome = "TransportFailure" => FetchFailed(last)

\* only the window and limit options were edited since a call that worked on
\* a snapshot
WindowEditedSinceLoadedCall == last.call = "none" /\ last.outcome = "loaded"
C12Step ==
  (RowTriggerCall /\ WindowEditedSinceLoadedCall /\ ~ResetRequested) =>
    /\ last'.fetches = 0
    /\ last'.shuffles = 0
    /\ last'.snapshot = staticData.processedDataset[1]
    /\ staticData'.processedDataset = staticData.processedDataset
    /\ last'.rows = IF impl = "resumable" THEN RowWindow(last'.snapshot, cfg.opts)
                                          ELSE StepWindow(last'.snapshot, cfg.opts)
    /\ impl = "resumable" =>
         /\ last'.currentIndex = Cursor(staticData)
         /\ Cursor(staticData') >= Cursor(staticData)
\* C12: a call of a caching row trigger made after only startRow, endRow,
\* stepSize, limitRows or maxRows were edited performs no fetch and no shuffle,
\* applies the new window to the cached snapshot, which it leaves as it was,
\* and, in the resumable trigger, continues from the persisted cursor.
C12_WindowIndependence == [][C12Step]_vars

(***************************************************************************)
(* The shuffle as the specification words it, on an unsigned 32-bit number *)
(* held as its two 16-bit halves <<high, low>> and computed by arithmetic. *)
(***************************************************************************)
RECURSIVE HalfXor(_, _, _)
\* exclusive or of two numbers of `bits` bits
HalfXor(a, b, bits) ==
  IF bits = 0 THEN 0 ELSE ((a + b) % 2) + 2 * HalfXor(a \div 2, b \div 2, bits - 1)
\* the seed coerced to unsigned 32 bits
SpecWord(seed) == <<(seed \div 65536) % 65536, seed % 65536>>
SpecXor(x, y) == <<HalfXor(x[1], y[1], 16), HalfXor(x[2], y[2], 16)>>
\* x << k for k < 16, the bits beyond 32 dropped
SpecShl(x, k) ==
  <<(x[1] * (2 ^ k) + (x[2] * (2 ^ k)) \div 65536) % 65536, (x[2] * (2 ^ k)) % 65536>>
\* x >>> k for k >= 16
SpecShr(x, k) == <<0, x[1] \div (2 ^ (k - 16))>>
\* s ^= s<<13; s ^= s>>>17; s ^= s<<5
SpecXorShift(x) ==
  LET a == SpecXor(x, SpecShl(x, 13))
      b == SpecXor(a, SpecShr(a, 17))
  IN  SpecXor(b, SpecShl(b, 5))
\* s mod 1000000
SpecMod(x) == (((((x[1] * 256) % 1000000) * 256) % 1000000) + x[2]) % 1000000
RECURSIVE SpecPass(_, _, _)
\* the backward pass from position i with the generator in state x:
\* j = floor(draw * (i + 1)), draw = (s mod 1000000) / 1000000
SpecPass(a, i, x) ==
  IF i < 1 THEN a
  ELSE LET y == SpecXorShift(x)
           j == (SpecMod(y) * (i + 1)) \div 1000000
           swapped == [a EXCEPT ![i + 1] = a[j + 1], ![j + 1] = a[i + 1]]
       IN  SpecPass(swapped, i - 1, y)
SpecOrder(seed, a) == SpecPass(a, Len(a) - 1, SpecWord(seed))

\* C13: with a seed other than 0, two reloads of the resumable row trigger and
\* the batch trigger give the same fetched sequence the same order, and that
\* order is the backward Fisher-Yates pass on xorshift32 draws from the seed
\* coerced to unsigned 32 bits.
C13_ShuffleDeterminism ==
  (shuf.done /\ OrDefault(shuf.seed, 0) # 0) =>
    /\ shuf.second = shuf.first
    /\ shuf.batch = shuf.first
    /\ shuf.first = SpecOrder(shuf.seed[1], shuf.fetched)
\* C13 witness: seed 42 orders six rows as 4, 2, 5, 6, 1, 3 and seed -1 orders
\* four rows as 3, 1, 4, 2.
C13_Witness ==
  /\ shuf.done
  /\ \/ shuf.seed = Some(42) /\ shuf.fetched = <<1, 2, 3, 4, 5, 6>>
        /\ shuf.first = <<4, 2, 5, 6, 1, 3>> /\ shuf.batch = shuf.first
     \/ shuf.seed = Some(-1) /\ shuf.fetched = <<1, 2, 3, 4>>
        /\ shuf.first = <<3, 1, 4, 2>> /\ shuf.batch = shuf.first

\* a step that is a call of the stepwise row trigger; one whose first input
\* item is the output of the call before it, the parameters not edited between
StepwiseCall == impl = "stepwise" /\ last'.call = "stepwise"
ChainedCall ==
  /\ StepwiseCall
  /\ last.call = "stepwise" /\ last.outcome = "row"
  /\ last'.input = PreviousOutput(last.out[1])
C14Step ==
  /\ StepwiseCall =>
       /\ last'.input.kind \in {"none", "other"} => last'.currentIndex = 0
       /\ last'.input.kind = "previous" =>
            last'.currentIndex = IF last'.input.rowsLeft = Some(0)
                                   THEN 0 ELSE last'.input.row_number[1] + 1
       /\ last'.outcome = "row" => last'.out[1].row_number = last'.currentIndex
       /\ staticData'.cursor = staticData.cursor
  /\ ChainedCall =>
       /\ last'.fetches = 0
       /\ last'.outcome = "row"
       /\ last'.out[1].row_number =
            IF last.out[1].rowsLeft = 0 THEN 0 ELSE last.out[1].row_number + 1
\* C14: the cursor of a stepwise call is the input item's row_number + 1 when
\* that item has a row_number and its _rowsLeft is not 0, and 0 otherwise; no
\* cursor is persisted; a call fed the previous call's output emits the next
\* row_number, and row_number 0 again when that output had _rowsLeft = 0.
C14_StepwiseCursor == [][C14Step]_vars
\* C14 witness: the call fed the output of the last row (row_number MaxLen-1,
\* _rowsLeft 0) emitted row_number 0 again.
C14_Witness ==
  /\ impl = "stepwise" /\ last.call = "stepwise" /\ last.outcome = "row"
  /\ last.input.kind = "previous"
  /\ last.input.row_number = Some(MaxLen - 1) /\ last.input.rowsLeft = Some(0)
  /\ last.out[1].row_number = 0 /\ last.effectiveTotal = MaxLen

\* C15: the stepwise call fed the output of the last of the Effective Total
\* emissions (the one with _rowsLeft = 0), window and limit unchanged, fails
\* with RowsExhausted.
C15_StepwiseExhaustion ==
  [][(ChainedCall /\ last.out[1].rowsLeft = 0) => last'.outcome = "RowsExhausted"]_vars

\* the run of the batch trigger has come to the end of its loop without
\* having been closed
BatchRunComplete == impl = "batch" /\ batch.pc = "done" /\ ~batch.cancelled
\* C16: the items of a batch run come with row_number 0, 1, 2, ... without gap
\* or repeat, item k being the Working Set row at position k; a run that is
\* not closed ends having emitted exactly Effective Total items, each of which
\* reports as _progress.total the number of items emitted.
C16_BatchCompleteness ==
  /\ \A k \in 1..Len(batch.emitted) :
       /\ batch.emitted[k].row_number = k - 1
       /\ batch.emitted[k].row = last.rows[k]
  /\ BatchRunComplete =>
       /\ Len(batch.emitted) = last.effectiveTotal
       /\ \A k \in 1..Len(batch.emitted) :
            batch.emitted[k].progress.total = Len(batch.emitted)

ExperimentEnabled == cfg.experimentConfig.enableExperiment
\* C17: in a batch run the items carry _langwatch.experiment and
\* _langwatch.batch exactly when the experiment is enabled; when it is, one
\* /api/experiment/init request has been made by the time the dataset is
\* fetched or an item emitted, and every item carries the run's non-empty
\* runId in _langwatch.batch.runId.
C17_BatchExperimentContext ==
  (impl = "batch" /\ last.call = "batch") =>
    /\ \A k \in 1..Len(batch.emitted) :
         LET item == batch.emitted[k] IN
         /\ (item.experiment # Unset) <=> ExperimentEnabled
         /\ (item.batch # Unset) <=> ExperimentEnabled
         /\ ExperimentEnabled =>
              /\ item.batch = Some([runId |-> batch.runId])
              /\ batch.runId # Unset /\ batch.runId[1] # ""
    /\ (last.fetches = 1 \/ batch.emitted # <<>>) =>
         batch.initRequests = IF ExperimentEnabled THEN 1 ELSE 0

(***************************************************************************)
(* Check If Evaluating                                                     *)
(***************************************************************************)
\* the item carries a batch context with a non-empty runId, as the
\* description of the operation words it
CarriesRun(item) ==
  LET ctx == IF item._langwatch # Unset /\ item._langwatch[1].batch # Unset
               THEN item._langwatch[1].batch
               ELSE item.batchEvaluation
  IN  ctx # Unset /\ ctx[1].runId # ""
\* the positions of the items for which CarriesRun is `on', in input order
Positions(items, on) ==
  SelectSeq([k \in 1..Len(items) |-> k], LAMBDA k : CarriesRun(items[k]) = on)
\* out holds exactly the items at the positions pos, in that order, each
\* paired with its input index and flagged isEvaluating = on
HoldsItems(out, items, pos, on) ==
  /\ Len(out) = Len(pos)
  /\ \A k \in 1..Len(pos) :
       /\ out[k].pairedItem = pos[k] - 1
       /\ out[k].json = [items[pos[k]] EXCEPT !.isEvaluating = Some(on)]

\* C18: Check If Evaluating sends every input item to exactly one output,
\* output 1 when the item carries a batch context (_langwatch.batch,
\* otherwise batchEvaluation) with a non-empty runId and output 2 otherwise,
\* keeps the input order within each output, sets isEvaluating to that
\* condition, returns as many items as it was given, and sends no request.
C18_CheckPartition ==
  (ev.pc = "done" /\ ev.operation = "checkIfEvaluating") =>
    /\ ev.error = ""
    /\ HoldsItems(ev.out1, ev.items, Positions(ev.items, TRUE), TRUE)
    /\ HoldsItems(ev.out2, ev.items, Positions(ev.items, FALSE), FALSE)
    /\ Len(ev.out1) + Len(ev.out2) = Len(ev.items)
    /\ ev.requests = <<>>
\* two items given, the second goes to output 1 and the first to output 2,
\* the first one holding an empty _langwatch.batch next to a batchEvaluation
C18_Witness ==
  /\ ev.pc = "done" /\ ev.operation = "checkIfEvaluating"
  /\ Len(ev.items) = 2
  /\ Len(ev.out1) = 1 /\ ev.out1[1].pairedItem = 1
  /\ Len(ev.out2) = 1 /\ ev.out2[1].pairedItem = 0
  /\ ev.items[1]._langwatch # Unset /\ ev.items[1]._langwatch[1].batch = Some(Context(""))
  /\ ev.items[1].batchEvaluation = Some(Context("run-2"))

(***************************************************************************)
(* The operation chosen by Auto                                            *)
(***************************************************************************)
\* a json parameter counts as filled when it is none of '', '{}' and '""'
Filled(raw) == raw \notin {"", "{}", "\"\""}
\* the evaluator picked by the selection method in use
SelectedEvaluator(p) ==
  IF p.evaluatorSelectionMethod = "dropdown" THEN p.evaluatorSelect ELSE p.evaluatorId
\* the operation the first matching rule gives, in the order the hints list
FirstMatch(p, items) ==
  CASE p.datasetSlug # "" \/ (p.format = "custom" /\ p.outputs # <<>>) -> "setOutputs"
    [] OTHER ->
       CASE SelectedEvaluator(p) # "" \/ Filled(p.evaluationData) -> "runAndRecord"
         [] OTHER ->
            CASE Filled(p.result) \/ (items # <<>> /\ items[1].evaluation # Unset)
                   -> "recordResult"
              [] OTHER -> "checkIfEvaluating"

\* C19: with operation = auto the node runs the first operation that matches,
\* in the order Set Outputs (a dataset slug, or the custom format with at
\* least one field), Run and Record (an evaluator selected by the active
\* method, or non-empty evaluation data), Record Result (a non-empty result
\* parameter, or an evaluation field on the item), Check If Evaluating; with
\* any other operation value it runs that operation whatever is filled in.
C19_AutoResolution ==
  ev.pc = "done" =>
    ev.operation = IF ev.params.operation = "auto"
                     THEN FirstMatch(ev.params, ev.items)
                     ELSE ev.params.operation
\* Auto lands on Record Result through the item's evaluation field alone:
\* the custom format has no field, the evaluator typed in belongs to the
\* method not in use, and the two json parameters hold '{}' and '""'
C19_Witness ==
  /\ ev.pc = "done" /\ ev.params.operation = "auto"
  /\ ev.operation = "recordResult"
  /\ ev.params.format = "custom" /\ ev.params.outputs = <<>>
  /\ ev.params.evaluatorSelectionMethod = "dropdown" /\ ev.params.evaluatorId = "ev-1"
  /\ ev.params.evaluationData = "{}" /\ ev.params.result = "\"\""
  /\ Len(ev.items) = 1 /\ ev.items[1].evaluation # Unset

(***************************************************************************)
(* The two outputs of the Evaluation node                                  *)
(***************************************************************************)
\* every field of the input json is a field of the output json; a field
\* the operation does not write holds the value it came in with
KeepsFields(input, output, operation) ==
  /\ output.id = input.id
  /\ output.batchEvaluation = input.batchEvaluation
  /\ output.isEvaluating = input.isEvaluating
  /\ output._progress = input._progress
  /\ input.evaluation # Unset => output.evaluation # Unset
  /\ operation # "runAndRecord" => output.evaluation = input.evaluation
  /\ input._langwatch # Unset =>
       /\ output._langwatch # Unset
       /\ output._langwatch[1].batch = input._langwatch[1].batch

LogRequests == SelectSeq(ev.requests, LAMBDA r : r.url = "log_results")
\* the runId of the item's batch context, "" when it has none
ContextRun(item) ==
  LET ctx == IF item._langwatch # Unset /\ item._langwatch[1].batch # Unset
               THEN item._langwatch[1].batch
               ELSE item.batchEvaluation
  IN  IF ctx = Unset THEN "" ELSE ctx[1].runId

\* C21: a log_results request for item i carries the Run ID parameter when
\* that is non-empty and the runId of the item's batch context otherwise; an
\* item with neither gets no log_results request; no item gets more than one.
C21_RunIdResolution ==
  ev.pc = "done" =>
    /\ \A k \in 1..Len(LogRequests) :
         LET r == LogRequests[k]
         IN  /\ r.item \in 1..Len(ev.items)
             /\ r.run_id = IF ev.params.runId # "" THEN ev.params.runId
                                                   ELSE ContextRun(ev.items[r.item])
             /\ r.run_id # ""
    /\ \A i \in 1..Len(ev.items) :
         Cardinality({k \in 1..Len(LogRequests) : LogRequests[k].item = i}) <= 1
\* two results logged in one execution, the first under the Run ID parameter
\* although the item carries the run of a batch, the second for an item
\* with no context at all
C21_Witness ==
  /\ ev.pc = "done" /\ ev.params.runId = "run-p"
  /\ Len(LogRequests) = 2
  /\ LogRequests[1].item = 1 /\ LogRequests[1].run_id = "run-p"
  /\ ContextRun(ev.items[1]) = "run-1"
  /\ LogRequests[2].item = 2 /\ ContextRun(ev.items[2]) = ""
\* no Run ID parameter: the item without a context is passed over and the
\* item whose run comes from batchEvaluation is logged under that run
C21_WitnessContext ==
  /\ ev.pc = "done" /\ ev.params.runId = "" /\ ev.error = ""
  /\ ev.operation = "recordResult" /\ Len(ev.items) = 2
  /\ ContextRun(ev.items[1]) = ""
  /\ ev.items[2]._langwatch # Unset /\ ev.items[2]._langwatch[1].batch = Unset
  /\ Len(LogRequests) = 1 /\ LogRequests[1].item = 2 /\ LogRequests[1].run_id = "run-2"

(***************************************************************************)
(* Run and Record on a failed evaluation                                   *)
(***************************************************************************)
\* the run the result of item i is logged under, "" when there is none
RunOf(i) == IF ev.params.runId # "" THEN ev.params.runId ELSE ContextRun(ev.items[i])
\* the k-th request is an evaluator's answer of passed = false, with
\* failOnFail switched on
FailsTheRun(k) ==
  /\ ev.requests[k].url = "evaluate"
  /\ ev.requests[k].answer = "failed"
  /\ ev.params.failOnFail
\* the k-th request is an evaluator's answer the execution goes on from
GoesOn(k) ==
  /\ ev.requests[k].url = "evaluate"
  /\ ev.requests[k].answer # "error"
  /\ ~FailsTheRun(k)

\* C22: in Run and Record with failOnFail on, an answer of passed = false
\* for item i ends the execution with 'Evaluation failed': nothing is logged
\* for item i, no item after i is evaluated, no output item is returned, and
\* the requests sent before stay sent.  With failOnFail off, or an answer
\* whose passed is not false, the execution goes on: the result is logged
\* next when a run id exists, and the item is output with the evaluation.
C22_FailOnFail ==
  (ev.pc = "done" /\ ev.operation = "runAndRecord") =>
    /\ \A k \in 1..Len(ev.requests) :
         FailsTheRun(k) =>
           /\ k = Len(ev.requests)
           /\ ev.error = "Evaluation failed"
           /\ ev.out1 = <<>> /\ ev.out2 = <<>>
           /\ \A j \in 1..Len(ev.requests) :
                /\ ev.requests[j].item <= ev.requests[k].item
                /\ ev.requests[j].item = ev.requests[k].item => j = k
    /\ ev.error = "Evaluation failed" => \E k \in 1..Len(ev.requests) : FailsTheRun(k)
    /\ \A k \in 1..Len(ev.requests) :
         GoesOn(k) =>
           LET i == ev.requests[k].item
           IN  /\ RunOf(i) # "" =>
                    /\ k < Len(ev.requests)
                    /\ ev.requests[k + 1].url = "log_results"
                    /\ ev.requests[k + 1].item = i
               /\ RunOf(i) = "" =>
                    \A j \in 1..Len(ev.requests) :
                       ev.requests[j].url = "log_results" => ev.requests[j].item # i
               /\ ev.error = "" =>
                    /\ ev.out1[i].pairedItem = i - 1
                    /\ ev.out1[i].json.evaluation = Some(ev.requests[k].answer)
\* the first item passes and is logged, the second fails: the execution
\* ends there, with three requests sent and nothing returned
C22_Witness ==
  /\ ev.pc = "done" /\ ev.operation = "runAndRecord" /\ ev.params.failOnFail
  /\ Len(ev.items) = 2 /\ Len(ev.requests) = 3
  /\ ev.requests[1].url = "evaluate" /\ ev.requests[1].answer = "passed"
  /\ ev.requests[2].url = "log_results" /\ ev.requests[2].answer = "ok"
  /\ FailsTheRun(3) /\ ev.requests[3].item = 2 /\ RunOf(2) # ""
  /\ ev.error = "Evaluation failed" /\ ev.out1 = <<>>
\* failOnFail off: both items fail their evaluation, both are logged and
\* both are returned with the failed evaluation attached
C22_WitnessGoesOn ==
  /\ ev.pc = "done" /\ ev.operation = "runAndRecord" /\ ~ev.params.failOnFail
  /\ ev.error = "" /\ Len(ev.items) = 2 /\ Len(ev.requests) = 4
  /\ \A i \in 1..2 : ev.out1[i].json.evaluation = Some("failed")

(***************************************************************************)
(* The two row-limit policies                                              *)
(***************************************************************************)
\* what the comparison looks at in an emitted item
Observed(item) ==
  [row |-> item.row, row_number |-> item.row_number, rowsLeft |-> item.rowsLeft,
   progress |-> item.progress]
\* the items of the batch run, once it has run to its end
BatchSequence == [k \in 1..Len(batch.emitted) |-> Observed(batch.emitted[k])]
ResumableSequence == [k \in 1..Len(lim.emitted) |-> Observed(lim.emitted[k])]
IsPrefix(a, b) == Len(a) <= Len(b) /\ \A k \in 1..Len(a) : a[k] = b[k]

\* C23: on the same unshuffled snapshot, window and limit, the items the
\* resumable trigger emits call after call from an empty static data up to
\* its first RowsExhausted are the items one batch run emits, in the same
\* order: while the calls go on they are the first items of the batch run,
\* the calls end on RowsExhausted, and they end with the whole of it.
C23_LimitPoliciesAgree ==
  (lim.state # "none" /\ batch.pc = "done") =>
    /\ IsPrefix(ResumableSequence, BatchSequence)
    /\ lim.state \in {"calling", "RowsExhausted"}
    /\ lim.state = "RowsExhausted" => ResumableSequence = BatchSequence

(***************************************************************************)
(* The finish marker of a batch                                            *)
(***************************************************************************)
\* the item has _progress.current and _progress.total, and they are equal
AtTheEnd(item) ==
  /\ item._progress # Unset
  /\ item._progress[1].current # Unset
  /\ item._progress[1].total # Unset
  /\ item._progress[1].current = item._progress[1].total

\* C24, the request on its own: a log_results request carries a finished_at
\* exactly when its item has _progress.current and _progress.total and the
\* two are equal.
C24_FinishMarker ==
  ev.pc = "done" =>
    \A k \in 1..Len(LogRequests) :
       LogRequests[k].finished <=> AtTheEnd(ev.items[LogRequests[k].item])
\* two log requests of one execution: one marked finished and one whose item has
\* a total but no current
C24_FinishMarkerWitness ==
  /\ ev.pc = "done" /\ Len(LogRequests) = 2
  /\ LogRequests[1].finished /\ LogRequests[1].progress = Some(2)
  /\ ~LogRequests[2].finished /\ LogRequests[2].progress = Unset
  /\ LogRequests[2].total = Some(2)

\* the batch run emitted every row it holds, each emitted item was taken
\* through the Evaluation node without an error, and each had a run to be
\* logged under
WholeRunEvaluated ==
  /\ pipe.on
  /\ batch.pc = "done" /\ Len(batch.emitted) = Len(batch.rows)
  /\ pipe.next = Len(batch.emitted)
  /\ ~pipe.failed
  /\ pipe.params.runId # "" \/ batch.experimentInfo # Unset

\* C24: when the items of one batch run are evaluated in emission order,
\* the progress values of the log_results requests are 1, 2, ..., T in that
\* order, T being the Effective Total of the run, and the request marked
\* finished is the last one, for row_number T - 1, and no other.
C24_BatchFinishMarker ==
  WholeRunEvaluated =>
    LET T == batch.effectiveTotal
    IN  /\ [k \in 1..Len(pipe.sent) |-> pipe.sent[k].progress] = [k \in 1..T |-> Some(k)]
        /\ \A k \in 1..Len(pipe.sent) :
             /\ pipe.sent[k].row_number = k - 1
             /\ pipe.sent[k].finished <=> k = T
        /\ Len(batch.emitted) >= 1 =>
             Cardinality({k \in 1..Len(pipe.sent) : pipe.sent[k].finished}) = 1

(***************************************************************************)
(* Closing a batch run                                                     *)
(***************************************************************************)
\* the items emitted so far are the first rows of the run, in order
EmittedPrefix(b) ==
  /\ Len(b.emitted) <= Len(b.rows)
  /\ \A k \in 1..Len(b.emitted) :
       /\ b.emitted[k].row_number = k - 1
       /\ b.emitted[k].row = b.rows[k]
C25Step ==
  /\ EmittedPrefix(batch')
  /\ batch.cancelled =>
       /\ batch'.cancelled
       /\ batch'.emitted = batch.emitted
       /\ batch'.pc \in {batch.pc, "done"}

\* C25: once closeFunction has been called the batch run emits nothing
\* more, at either emit interval and whether the close comes while the loop
\* waits on its timer or after its end; what was emitted before is the
\* first k rows of the run in order, and a closed run stays closed.
C25_BatchCancellation == [][C25Step]_vars
\* a run of two rows closed while it waited after the first: the timer has
\* fired since, and the second row was not emitted
C25_Witness ==
  /\ impl = "batch" /\ batch.cancelled /\ batch.pc = "done"
  /\ batch.emitIntervalMs > 0
  /\ Len(batch.rows) = 2 /\ Len(batch.emitted) = 1 /\ batch.i = 1

(***************************************************************************)
(* The recorded flag                                                       *)
(***************************************************************************)
\* a log_results request for input item i was sent and answered
LoggedOk(i) ==
  \E k \in 1..Len(LogRequests) : LogRequests[k].item = i /\ LogRequests[k].answer = "ok"

\* C26: an item Record Result or Run and Record returns carries
\* _langwatch.recorded = true only if a log_results request for that item
\* was sent and succeeded during the execution.
C26_RecordedImpliesLogged ==
  (ev.pc = "done" /\ ev.operation \in {"recordResult", "runAndRecord"}) =>
    \A k \in 1..Len(ev.out1) :
       (ev.out1[k].json._langwatch # Unset /\ ev.out1[k].json._langwatch[1].recorded)
         => LoggedOk(ev.out1[k].pairedItem + 1)

====
